---------------------------- MODULE Spec2Model ----------------------------
(***************************************************************************)
(* Model of the integration-health-dashboard API: the in-memory event      *)
(* store (services/eventStore.ts), the health thresholds and the error     *)
(* classifier (services/healthCalculator.ts, services/classifier.ts) and   *)
(* the event routes (routes/events.ts).                                    *)
(*                                                                         *)
(* JavaScript objects are functions from the keys that are present (and    *)
(* not undefined) to their values; a key holding undefined is modelled as  *)
(* an absent key, which is how optional chaining, truthiness tests and     *)
(* JSON serialisation observe it.  Strings are TLA+ strings; where the     *)
(* code looks inside a string (toLowerCase, includes, localeCompare) the   *)
(* string is expanded to its characters by Chars.                          *)
(***************************************************************************)
EXTENDS Integers, Sequences, FiniteSets, TLC

(***************************************************************************)
(* Bounds of the model.                                                    *)
(***************************************************************************)
\* the largest maxEvents handed to the constructor
MaxCap == 2
\* create calls while the resolution lifecycle is explored
MaxCreates == 1
\* advances of the clock
MaxTicks == 1
\* calls that set a classification or a resolution
MaxOps == 3
\* create calls while the capacity is explored
MaxCapCreates == 3
\* other mutating calls while the capacity is explored
MaxCapOps == 1
\* create calls, clock advances and resolution calls, taken together, while the
\* queries are explored
MaxQuerySteps == 4
\* classify requests
MaxReqs == 2
\* creates and requests of a run of the resolution and classify routes
MaxHttpSteps == 3
\* creates, clock advances and resolution calls between repeated reads
MaxReadSteps == 3
\* webhook deliveries and classify requests of a run of the routes
MaxRouteSteps == 3
\* the largest clientCount handed to generateMockData
MaxClients == 2
\* generateMockData and triggerSync calls and clock advances of a run of the
\* sync store
MaxSyncSteps == 3
\* the largest errorsLast24h handed to calculateStatus
MaxErrors == 25
\* the events of one integration within 24 hours while the statistics are
\* explored
MaxStatsEvents == 40

(***************************************************************************)
(* Program constants.                                                      *)
(***************************************************************************)
DEFAULT_PAGE_SIZE == 50
MAX_EVENTS_IN_MEMORY == 1000
DAY_MS == 24 * 60 * 60 * 1000

Undefined == "<undefined>"

\* null in place of a timestamp (no timestamp is negative)
Null == -1

(***************************************************************************)
(* Strings as character sequences.                                         *)
(***************************************************************************)
Chars ==
   "procore" :> <<"p","r","o","c","o","r","e">>
   @@ "gusto" :> <<"g","u","s","t","o">>
   @@ "quickbooks" :> <<"q","u","i","c","k","b","o","o","k","s">>
   @@ "stripe_issuing" :> <<"s","t","r","i","p","e","_","i","s","s","u","i","n","g">>
   @@ "certified_payroll" :> <<"c","e","r","t","i","f","i","e","d","_","p","a","y","r","o","l","l">>
   @@ "success" :> <<"s","u","c","c","e","s","s">>
   @@ "failure" :> <<"f","a","i","l","u","r","e">>
   @@ "pending" :> <<"p","e","n","d","i","n","g">>
   @@ "project.sync" :> <<"p","r","o","j","e","c","t",".","s","y","n","c">>
   @@ "employee.sync" :> <<"e","m","p","l","o","y","e","e",".","s","y","n","c">>
   @@ "Validation failed" :> <<"V","a","l","i","d","a","t","i","o","n"," ","f","a","i","l","e","d">>
   @@ "OAuth token expired. Re-authentication required." :> <<"O","A","u","t","h"," ","t","o","k","e","n"," ","e","x","p","i","r","e","d","."," ","R","e","-","a","u","t","h","e","n","t","i","c","a","t","i","o","n"," ","r","e","q","u","i","r","e","d",".">>
   @@ "Card declined: unauthorized merchant" :> <<"C","a","r","d"," ","d","e","c","l","i","n","e","d",":"," ","u","n","a","u","t","h","o","r","i","z","e","d"," ","m","e","r","c","h","a","n","t">>
   @@ "Wage rate missing: rate limit check skipped" :> <<"W","a","g","e"," ","r","a","t","e"," ","m","i","s","s","i","n","g",":"," ","r","a","t","e"," ","l","i","m","i","t"," ","c","h","e","c","k"," ","s","k","i","p","p","e","d">>
   @@ "Rate limit exceeded" :> <<"R","a","t","e"," ","l","i","m","i","t"," ","e","x","c","e","e","d","e","d">>
   @@ "Entity not found" :> <<"E","n","t","i","t","y"," ","n","o","t"," ","f","o","u","n","d">>
   @@ "An unexpected internal server error occurred" :> <<"A","n"," ","u","n","e","x","p","e","c","t","e","d"," ","i","n","t","e","r","n","a","l"," ","s","e","r","v","e","r"," ","e","r","r","o","r"," ","o","c","c","u","r","r","e","d">>
   @@ "400" :> <<"4","0","0">>
   @@ "401" :> <<"4","0","1">>
   @@ "404" :> <<"4","0","4">>
   @@ "429" :> <<"4","2","9">>
   @@ "500" :> <<"5","0","0">>
   @@ "card_declined" :> <<"c","a","r","d","_","d","e","c","l","i","n","e","d">>
   @@ "Entity not found: Project #12847 has been archived in Procore" :> <<"E","n","t","i","t","y"," ","n","o","t"," ","f","o","u","n","d",":"," ","P","r","o","j","e","c","t"," ","#","1","2","8","4","7"," ","h","a","s"," ","b","e","e","n"," ","a","r","c","h","i","v","e","d"," ","i","n"," ","P","r","o","c","o","r","e">>
   @@ "Cost code mapping failed: Code \"03-100\" exists in Procore but has no matching code in Miter" :> <<"C","o","s","t"," ","c","o","d","e"," ","m","a","p","p","i","n","g"," ","f","a","i","l","e","d",":"," ","C","o","d","e"," ","\"","0","3","-","1","0","0","\""," ","e","x","i","s","t","s"," ","i","n"," ","P","r","o","c","o","r","e"," ","b","u","t"," ","h","a","s"," ","n","o"," ","m","a","t","c","h","i","n","g"," ","c","o","d","e"," ","i","n"," ","M","i","t","e","r">>
   @@ "MAPPING_ERROR" :> <<"M","A","P","P","I","N","G","_","E","R","R","O","R">>
   @@ "UNKNOWN" :> <<"U","N","K","N","O","W","N">>
   @@ "unknown" :> <<"u","n","k","n","o","w","n">>
   @@ "project_archived" :> <<"p","r","o","j","e","c","t","_","a","r","c","h","i","v","e","d">>
   @@ "cost_code_mismatch" :> <<"c","o","s","t","_","c","o","d","e","_","m","i","s","m","a","t","c","h">>
   @@ "auth_expired" :> <<"a","u","t","h","_","e","x","p","i","r","e","d">>
   @@ "sync" :> <<"s","y","n","c">>
   @@ "PRO" :> <<"P","R","O">>
   @@ "pro" :> <<"p","r","o">>
   @@ "oauth" :> <<"o","a","u","t","h">>
   @@ "40" :> <<"4","0">>
   @@ "OAUTH" :> <<"O","A","U","T","H">>
   @@ "0" :> <<"0">>
   @@ "1" :> <<"1">>
   @@ "2" :> <<"2">>
   @@ "3" :> <<"3">>
   @@ "10" :> <<"1","0">>
   @@ "anonymous" :> <<"a","n","o","n","y","m","o","u","s">>
   @@ "spending" :> <<"s","p","e","n","d","i","n","g">>
   @@ "spending_limit" :> <<"s","p","e","n","d","i","n","g","_","l","i","m","i","t">>
   @@ "declined" :> <<"d","e","c","l","i","n","e","d">>
   @@ "token expired" :> <<"t","o","k","e","n"," ","e","x","p","i","r","e","d">>
   @@ "unauthorized" :> <<"u","n","a","u","t","h","o","r","i","z","e","d">>
   @@ "re-auth" :> <<"r","e","-","a","u","t","h">>
   @@ "prevailing wage" :> <<"p","r","e","v","a","i","l","i","n","g"," ","w","a","g","e">>
   @@ "wage rate" :> <<"w","a","g","e"," ","r","a","t","e">>
   @@ "apprentice" :> <<"a","p","p","r","e","n","t","i","c","e">>
   @@ "fringe" :> <<"f","r","i","n","g","e">>
   @@ "wh-347" :> <<"w","h","-","3","4","7">>
   @@ "lcptracker" :> <<"l","c","p","t","r","a","c","k","e","r">>
   @@ "certified payroll" :> <<"c","e","r","t","i","f","i","e","d"," ","p","a","y","r","o","l","l">>
   @@ "rate limit" :> <<"r","a","t","e"," ","l","i","m","i","t">>
   @@ "too many requests" :> <<"t","o","o"," ","m","a","n","y"," ","r","e","q","u","e","s","t","s">>
   @@ "validation" :> <<"v","a","l","i","d","a","t","i","o","n">>
   @@ "required" :> <<"r","e","q","u","i","r","e","d">>
   @@ "invalid" :> <<"i","n","v","a","l","i","d">>
   @@ "null" :> <<"n","u","l","l">>
   @@ "archived" :> <<"a","r","c","h","i","v","e","d">>
   @@ "not found" :> <<"n","o","t"," ","f","o","u","n","d">>
   @@ "entity not found" :> <<"e","n","t","i","t","y"," ","n","o","t"," ","f","o","u","n","d">>
   @@ "mapping failed" :> <<"m","a","p","p","i","n","g"," ","f","a","i","l","e","d">>

UpperCase == <<"A","B","C","D","E","F","G","H","I","J","K","L","M",
               "N","O","P","Q","R","S","T","U","V","W","X","Y","Z">>
LowerCase == <<"a","b","c","d","e","f","g","h","i","j","k","l","m",
               "n","o","p","q","r","s","t","u","v","w","x","y","z">>

\* String.prototype.toLowerCase, one character
ToLowerChar(c) ==
   IF \E i \in 1..26 : UpperCase[i] = c
   THEN LowerCase[CHOOSE i \in 1..26 : UpperCase[i] = c]
   ELSE c

\* String.prototype.toLowerCase
ToLowerCase(s) == [i \in 1..Len(s) |-> ToLowerChar(s[i])]

\* String.prototype.includes
Includes(s, sub) ==
   \E i \in 0..(Len(s) - Len(sub)) : SubSeq(s, i + 1, i + Len(sub)) = sub

\* Collation order of the characters that occur in the model's strings
\* (punctuation before digits before letters, as Intl.Collator orders them).
CollationOrder ==
   <<" ","_","-",":",".","\"","#","0","1","2","3","4","5","6","7","8","9">> \o LowerCase

CollationRank(c) ==
   CHOOSE i \in 1..Len(CollationOrder) : CollationOrder[i] = ToLowerChar(c)

RECURSIVE ComparePrimary(_, _)
ComparePrimary(a, b) ==
   IF a = <<>> /\ b = <<>> THEN 0
   ELSE IF a = <<>> THEN -1
   ELSE IF b = <<>> THEN 1
   ELSE IF CollationRank(Head(a)) < CollationRank(Head(b)) THEN -1
   ELSE IF CollationRank(Head(a)) > CollationRank(Head(b)) THEN 1
   ELSE ComparePrimary(Tail(a), Tail(b))

RECURSIVE CompareCase(_, _)
CompareCase(a, b) ==
   IF a = <<>> \/ b = <<>> THEN 0
   ELSE IF Head(a) = Head(b) THEN CompareCase(Tail(a), Tail(b))
   ELSE IF Head(a) = ToLowerChar(Head(a)) THEN -1
   ELSE 1

\* the strings of the model
Strings == DOMAIN Chars

\* x.localeCompare(y), tabulated over the strings of the model
LocaleCompareTable ==
   [x \in Strings, y \in Strings |->
      LET p == ComparePrimary(Chars[x], Chars[y])
      IN  IF p # 0 THEN p ELSE CompareCase(Chars[x], Chars[y])]

\* String.prototype.localeCompare on two strings
LocaleCompare(x, y) == LocaleCompareTable[x, y]

\* x.toLowerCase().includes(y), tabulated over the strings of the model
LowerIncludesTable ==
   [x \in Strings, y \in Strings |-> Includes(ToLowerCase(Chars[x]), Chars[y])]

\* x.includes(y), without the lower-casing
LowerIncludes_caseSensitive(x, y) == Includes(Chars[x], Chars[y])

\* x.toLowerCase().includes(y)
LowerIncludes(x, y) == LowerIncludesTable[x, y]

\* x.toLowerCase(), for the strings whose lower-case form is a string of the model
LowerString(x) == CHOOSE y \in Strings : Chars[y] = ToLowerCase(Chars[x])

\* the search terms of the model
SearchTerms == {"sync", "PRO", "oauth", "OAUTH", "40"}

LowerStringTable == [x \in SearchTerms |-> LowerString(x)]

(***************************************************************************)
(* JavaScript objects.                                                     *)
(***************************************************************************)
\* the key is present (o.k is not undefined)
Has(o, k) == k \in DOMAIN o

\* if (o?.k) for a key that holds a string: present and not the empty string
Truthy(o, k) == k \in DOMAIN o /\ o[k] # ""

\* { ...a, ...b }
Spread(a, b) ==
   [k \in (DOMAIN a) \cup (DOMAIN b) |-> IF k \in DOMAIN b THEN b[k] ELSE a[k]]

\* o without key k (a key set to undefined)
Without(o, k) == [x \in (DOMAIN o) \ {k} |-> o[x]]

\* o with o[k] = v
Assign(o, k, v) == [x \in (DOMAIN o) \cup {k} |-> IF x = k THEN v ELSE o[x]]

\* o with o[k] = v for a string v that may be undefined (the key is then absent)
AssignOpt(o, k, v) == IF v = Undefined THEN Without(o, k) ELSE Assign(o, k, v)

EmptyObject == [k \in {} |-> Undefined]

(***************************************************************************)
(* Types (types/events.ts, types/integrations.ts).                         *)
(***************************************************************************)
IntegrationType ==
   {"procore", "gusto", "quickbooks", "stripe_issuing", "certified_payroll"}
EventStatus == {"success", "failure", "pending"}
ResolutionStatus == {"open", "acknowledged", "resolved"}
ErrorCategory ==
   {"auth", "rate_limit", "data_validation", "data_state_mismatch",
    "network", "spending_control", "compliance", "unknown"}
ErrorSeverity == {"low", "medium", "high", "critical"}

(***************************************************************************)
(* Inputs of the model.                                                    *)
(***************************************************************************)
\* CreateEventInput values handed to create
CreateInputs ==
   { [integration |-> "procore", eventType |-> "project.sync",
      status |-> "success", payload |-> "payload1"],
     [integration |-> "gusto", eventType |-> "employee.sync",
      status |-> "pending", payload |-> "payload2"],
     [integration |-> "procore", eventType |-> "project.sync",
      status |-> "failure", payload |-> "payload1",
      error |-> [message |-> "Validation failed", code |-> "400"]],
     [integration |-> "gusto", eventType |-> "employee.sync",
      status |-> "failure", payload |-> "payload2",
      error |-> [message |-> "OAuth token expired. Re-authentication required."]],
     [integration |-> "procore", eventType |-> "project.sync",
      status |-> "failure", payload |-> "payload1"] }

\* the inputs of create when the store is driven directly
StoreInputs ==
   {input \in CreateInputs :
      \/ input.integration = "procore" /\ input.status = "success"
      \/ input.status = "pending"
      \/ input.integration = "procore" /\ Has(input, "error")}

\* actors and notes of acknowledge / resolve; Undefined is an argument left out
Actors == {Undefined, "alice"}
Notes == {Undefined, "fixed upstream"}

\* maxEvents handed to the EventStore constructor
Caps == 1..MaxCap


\* amounts of time that pass between two operations, in milliseconds
TickSteps == {1, DAY_MS}

\* the resolvedBy and notes arguments of resolve
ResolveArgs ==
   { [by |-> Undefined, notes |-> Undefined],
     [by |-> "alice", notes |-> "fixed upstream"] }

VARIABLES
   events,      \* EventStore.events, newest first
   maxEvents,   \* EventStore.maxEvents
   nextId,      \* the number of ids issued by uuidv4 so far, plus one
   now,         \* the clock read by new Date(), in milliseconds
   ticks,       \* the number of times the clock advanced
   ops,         \* the number of calls that set a classification or a resolution
   sinceClear,  \* history: the number of create calls since the last clear
   openai,      \* whether the OpenAI client is configured (OPENAI_API_KEY set)
   reqs,        \* the classify requests: idle, awaiting the capability, or done
   invoked,     \* history: the event ids the capability was invoked for
   result,      \* the value returned by the last call, when it was a read
   pipelines,   \* syncStore: the pipeline catalog, empty until initialized
   instances,   \* syncStore: the sync instances
   executions,  \* syncStore: the sync executions
   uuids,       \* the number of execution ids issued by randomUUID so far
   syncs        \* history: the number of generateMockData and triggerSync calls

vars == <<events, maxEvents, nextId, now, ticks, ops, sinceClear,
          openai, reqs, invoked, result,
          pipelines, instances, executions, uuids, syncs>>

storeVars == <<events, maxEvents, nextId, now, ticks, ops, sinceClear>>
classifyVars == <<openai, reqs, invoked>>
syncVars == <<pipelines, instances, executions, uuids, syncs>>

(***************************************************************************)
(* EventStore (services/eventStore.ts).                                    *)
(***************************************************************************)
\* Array.prototype.find((e) => e.id === id): the index, 0 when there is none
FindIndex(evts, id) ==
   IF \E i \in 1..Len(evts) : evts[i].id = id
   THEN CHOOSE i \in 1..Len(evts) :
           evts[i].id = id /\ \A j \in 1..(i - 1) : evts[j].id # id
   ELSE 0

getById(evts, id) ==
   IF FindIndex(evts, id) = 0 THEN Undefined ELSE evts[FindIndex(evts, id)]

\* the event object built by create
NewEvent(input, id, time) ==
   Spread([id |-> id, timestamp |-> time], input)

\* create that evicts the newest stored event instead of the oldest
create_evictNewest(evts, cap, input, id, time) ==
   LET unshifted == <<NewEvent(input, id, time)>> \o evts
   IN  IF Len(unshifted) > cap
       THEN <<Head(unshifted)>> \o SubSeq(unshifted, 3, Len(unshifted))
       ELSE unshifted

\* create: unshift, then pop when the length exceeds maxEvents
create(evts, cap, input, id, time) ==
   LET unshifted == <<NewEvent(input, id, time)>> \o evts
   IN  IF Len(unshifted) > cap
       THEN SubSeq(unshifted, 1, Len(unshifted) - 1)
       ELSE unshifted

updateClassification(evts, id, classification) ==
   LET i == FindIndex(evts, id)
   IN  IF i # 0
       THEN [evts EXCEPT ![i] = Assign(@, "classification", classification)]
       ELSE evts

\* acknowledge that spreads the prior resolution record, as resolve does
acknowledge_keepPrior(evts, id, acknowledgedBy, time) ==
   LET i == FindIndex(evts, id)
       by == IF acknowledgedBy = Undefined THEN "anonymous" ELSE acknowledgedBy
       prior == IF i # 0 /\ Has(evts[i], "resolution") THEN evts[i].resolution
                ELSE EmptyObject
   IN  IF i # 0 /\ evts[i].status = "failure"
       THEN [evts EXCEPT ![i] = Assign(@, "resolution",
               Spread(prior, [status |-> "acknowledged", acknowledgedAt |-> time,
                              acknowledgedBy |-> by]))]
       ELSE evts

acknowledge(evts, id, acknowledgedBy, time) ==
   LET i == FindIndex(evts, id)
       by == IF acknowledgedBy = Undefined THEN "anonymous" ELSE acknowledgedBy
   IN  IF i # 0 /\ evts[i].status = "failure"
       THEN [evts EXCEPT ![i] = Assign(@, "resolution",
               [status |-> "acknowledged", acknowledgedAt |-> time,
                acknowledgedBy |-> by])]
       ELSE evts

\* resolve that replaces the resolution instead of merging into it
resolve_replaces(evts, id, resolvedBy, notes, time) ==
   LET i == FindIndex(evts, id)
       by == IF resolvedBy = Undefined THEN "anonymous" ELSE resolvedBy
   IN  IF i # 0 /\ evts[i].status = "failure"
       THEN [evts EXCEPT ![i] = Assign(@, "resolution",
               AssignOpt([status |-> "resolved", resolvedAt |-> time,
                          resolvedBy |-> by], "notes", notes))]
       ELSE evts

resolve(evts, id, resolvedBy, notes, time) ==
   LET i == FindIndex(evts, id)
       by == IF resolvedBy = Undefined THEN "anonymous" ELSE resolvedBy
       prior == IF Has(evts[i], "resolution") THEN evts[i].resolution
                ELSE EmptyObject
   IN  IF i # 0 /\ evts[i].status = "failure"
       THEN [evts EXCEPT ![i] = Assign(@, "resolution",
               AssignOpt(Spread(prior,
                  [status |-> "resolved", resolvedAt |-> time, resolvedBy |-> by]),
                  "notes", notes))]
       ELSE evts

\* reopen that keeps the fields of the prior record, as resolve does
reopen_keepPrior(evts, id) ==
   LET i == FindIndex(evts, id)
       prior == IF Has(evts[i], "resolution") THEN evts[i].resolution
                ELSE EmptyObject
   IN  IF i # 0
       THEN [evts EXCEPT ![i] = Assign(@, "resolution",
               Spread(prior, [status |-> "open"]))]
       ELSE evts

\* reopen that rebuilds the event without its classification
reopen_dropsClassification(evts, id) ==
   LET i == FindIndex(evts, id)
   IN  IF i # 0
       THEN [evts EXCEPT ![i] =
               Assign(Without(@, "classification"), "resolution",
                      [status |-> "open"])]
       ELSE evts

reopen(evts, id) ==
   LET i == FindIndex(evts, id)
   IN  IF i # 0
       THEN [evts EXCEPT ![i] = Assign(@, "resolution", [status |-> "open"])]
       ELSE evts

clear(evts) == <<>>

\* Array.prototype.slice(start, end)
Slice(seq, start, end) ==
   LET len == Len(seq)
       from == IF start < 0 THEN (IF len + start < 0 THEN 0 ELSE len + start)
               ELSE (IF start > len THEN len ELSE start)
       to == IF end < 0 THEN (IF len + end < 0 THEN 0 ELSE len + end)
             ELSE (IF end > len THEN len ELSE end)
   IN  SubSeq(seq, from + 1, to)

\* e.resolution?.status || 'open'
EffectiveResolution(e) ==
   IF Has(e, "resolution") THEN e.resolution.status ELSE "open"

\* the search predicate of getPaginated, searchLower already lower-cased
MatchesSearch(e, searchLower) ==
   \/ LowerIncludes(e.eventType, searchLower)
   \/ LowerIncludes(e.integration, searchLower)
   \/ /\ Has(e, "error")
      /\ Has(e.error, "message")
      /\ LowerIncludes(e.error.message, searchLower)
   \/ /\ Has(e, "error")
      /\ Has(e.error, "code")
      /\ LowerIncludes(e.error.code, searchLower)

\* the comparator without its last line: the direction is ignored
Compare_ascendingOnly(a, b, sortBy, sortOrder) ==
   CASE sortBy = "timestamp" -> a.timestamp - b.timestamp
     [] sortBy = "integration" -> LocaleCompare(a.integration, b.integration)
     [] sortBy = "eventType" -> LocaleCompare(a.eventType, b.eventType)
     [] sortBy = "status" -> LocaleCompare(a.status, b.status)
     [] OTHER -> 0

\* the comparator handed to Array.prototype.sort by getPaginated
Compare(a, b, sortBy, sortOrder) ==
   LET comparison ==
          CASE sortBy = "timestamp" -> a.timestamp - b.timestamp
            [] sortBy = "integration" -> LocaleCompare(a.integration, b.integration)
            [] sortBy = "eventType" -> LocaleCompare(a.eventType, b.eventType)
            [] sortBy = "status" -> LocaleCompare(a.status, b.status)
            [] OTHER -> 0
   IN  IF sortOrder = "asc" THEN comparison ELSE -comparison

\* SortedInsert that puts x in front of the elements it ties with (a sort that is
\* not stable)
RECURSIVE SortedInsert_beforeTies(_, _, _, _)
SortedInsert_beforeTies(sorted, x, sortBy, sortOrder) ==
   IF sorted = <<>> THEN <<x>>
   ELSE IF Compare(Head(sorted), x, sortBy, sortOrder) >= 0 THEN <<x>> \o sorted
   ELSE <<Head(sorted)>> \o SortedInsert_beforeTies(Tail(sorted), x, sortBy, sortOrder)

\* x put into a sorted sequence behind every element that does not sort after it
RECURSIVE SortedInsert(_, _, _, _)
SortedInsert(sorted, x, sortBy, sortOrder) ==
   IF sorted = <<>> THEN <<x>>
   ELSE IF Compare(Head(sorted), x, sortBy, sortOrder) > 0 THEN <<x>> \o sorted
   ELSE <<Head(sorted)>> \o SortedInsert(Tail(sorted), x, sortBy, sortOrder)

\* Array.prototype.sort with the comparator of getPaginated (a stable sort)
RECURSIVE Sort(_, _, _)
Sort(seq, sortBy, sortOrder) ==
   IF seq = <<>> THEN <<>>
   ELSE SortedInsert(Sort(SubSeq(seq, 1, Len(seq) - 1), sortBy, sortOrder),
                     seq[Len(seq)], sortBy, sortOrder)

\* the events of getPaginated after its five filters
Filtered(evts, options) ==
   LET f0 == evts
       f1 == IF Truthy(options, "integration")
             THEN LET Keep(e) == e.integration = options.integration
                  IN  SelectSeq(f0, Keep)
             ELSE f0
       f2 == IF Truthy(options, "status")
             THEN LET Keep(e) == e.status = options.status
                  IN  SelectSeq(f1, Keep)
             ELSE f1
       f3 == IF Truthy(options, "resolutionStatus")
             THEN LET Keep(e) == EffectiveResolution(e) = options.resolutionStatus
                  IN  SelectSeq(f2, Keep)
             ELSE f2
       f4 == IF Has(options, "since")
             THEN LET Keep(e) == e.timestamp >= options.since
                  IN  SelectSeq(f3, Keep)
             ELSE f3
       f5 == IF Truthy(options, "search")
             THEN LET Keep(e) ==
                         MatchesSearch(e, LowerStringTable[options.search])
                  IN  SelectSeq(f4, Keep)
             ELSE f4
   IN  f5

getPaginated(evts, options) ==
   LET sortBy == IF Truthy(options, "sortBy") THEN options.sortBy ELSE "timestamp"
       sortOrder == IF Truthy(options, "sortOrder") THEN options.sortOrder ELSE "desc"
       sorted == Sort(Filtered(evts, options), sortBy, sortOrder)
       total == Len(sorted)
       offset == IF Has(options, "offset") /\ options.offset # 0
                 THEN options.offset ELSE 0
       limit == IF Has(options, "limit") /\ options.limit # 0
                THEN options.limit ELSE DEFAULT_PAGE_SIZE
   IN  [events |-> Slice(sorted, offset, offset + limit),
        total |-> total,
        offset |-> offset,
        limit |-> limit,
        hasMore |-> offset + limit < total]

getAll(evts, options) == getPaginated(evts, options).events

\* twice the rates k + 1/2 at which the product of doubles
\* ((total - failures) / total) * 100 falls below the half: 14.5, 28.5, 56.5
\* and 57.5.  The quotient of doubles depends on the ratio only, and every
\* ratio with a rate of k + 1/2 occurs with total 200.
HalvesRoundedDown == {29, 57, 113, 115}

\* the rate with Math.floor in the place of Math.round
RoundedRate_floor(total, failures) == (100 * (total - failures)) \div total

\* Math.round(((total - failures) / total) * 100): the nearest integer; a half
\* rounds up unless the product of doubles falls below it
RoundedRate(total, failures) ==
   LET doubled == 200 * (total - failures)
       halfUp == (doubled + total) \div (2 * total)
   IN  IF doubled % total = 0 /\ (doubled \div total) \in HalvesRoundedDown
       THEN halfUp - 1
       ELSE halfUp

\* getStats without the test of the integration
getStats_anyIntegration(evts, integration, time) ==
   LET last24hTime == time - DAY_MS
       Keep(e) == e.timestamp >= last24hTime
       integrationEvents == SelectSeq(evts, Keep)
       IsFailure(e) == e.status = "failure"
       total == Len(integrationEvents)
       failures == Len(SelectSeq(integrationEvents, IsFailure))
   IN  [eventsLast24h |-> total,
        errorsLast24h |-> failures,
        successRate |-> IF total > 0 THEN RoundedRate(total, failures) ELSE 100,
        lastSync |-> IF Len(integrationEvents) > 0
                     THEN integrationEvents[1].timestamp ELSE Null]

getStats(evts, integration, time) ==
   LET last24hTime == time - DAY_MS
       Keep(e) == e.integration = integration /\ e.timestamp >= last24hTime
       integrationEvents == SelectSeq(evts, Keep)
       IsFailure(e) == e.status = "failure"
       total == Len(integrationEvents)
       failures == Len(SelectSeq(integrationEvents, IsFailure))
   IN  [eventsLast24h |-> total,
        errorsLast24h |-> failures,
        successRate |-> IF total > 0 THEN RoundedRate(total, failures) ELSE 100,
        lastSync |-> IF Len(integrationEvents) > 0
                     THEN integrationEvents[1].timestamp ELSE Null]

(***************************************************************************)
(* Health thresholds (services/healthCalculator.ts).                       *)
(***************************************************************************)
\* calculateStatus whose degraded test joins its two conditions with && 
calculateStatus_bothConditions(successRate, errorsLast24h) ==
   IF successRate >= 98 /\ errorsLast24h < 5 THEN "healthy"
   ELSE IF successRate >= 90 /\ errorsLast24h < 20 THEN "degraded"
   ELSE "down"

calculateStatus(successRate, errorsLast24h) ==
   IF successRate >= 98 /\ errorsLast24h < 5 THEN "healthy"
   ELSE IF successRate >= 90 \/ errorsLast24h < 20 THEN "degraded"
   ELSE "down"

\* INTEGRATIONS of the shared package
INTEGRATIONS ==
   [procore |->
       [id |-> "procore", name |-> "Procore",
        description |-> "Project management and construction data"],
    gusto |->
       [id |-> "gusto", name |-> "Gusto",
        description |-> "Payroll and HR management"],
    quickbooks |->
       [id |-> "quickbooks", name |-> "QuickBooks",
        description |-> "Accounting and invoicing"],
    stripe_issuing |->
       [id |-> "stripe_issuing", name |-> "Stripe Issuing",
        description |-> "Virtual cards and spend management"],
    certified_payroll |->
       [id |-> "certified_payroll", name |-> "Certified Payroll",
        description |-> "Prevailing wage compliance reporting"]]

getIntegrationHealth(evts, integrationId, time) ==
   LET stats == getStats(evts, integrationId, time)
       base == INTEGRATIONS[integrationId]
   IN  [id |-> base.id,
        name |-> base.name,
        description |-> base.description,
        status |-> calculateStatus(stats.successRate, stats.errorsLast24h),
        lastSync |-> stats.lastSync,
        successRate |-> stats.successRate,
        eventsLast24h |-> stats.eventsLast24h,
        errorsLast24h |-> stats.errorsLast24h]

(***************************************************************************)
(* GET /events (routes/events.ts).                                         *)
(***************************************************************************)
DecimalDigits == <<"0","1","2","3","4","5","6","7","8","9">>

RECURSIVE ParseDigits(_, _)
ParseDigits(chars, acc) ==
   IF chars = <<>> THEN acc
   ELSE ParseDigits(Tail(chars),
           10 * acc + (CHOOSE d \in 0..9 : DecimalDigits[d + 1] = Head(chars)))

\* parseInt(s, 10) of a string of decimal digits
parseInt(s) == ParseDigits(Chars[s], 0)

\* new Date(s).getTime() of the ISO date strings of the model
newDate(s) ==
   CASE s = "1970-01-01T00:00:00.001Z" -> 1
     [] s = "1970-01-02T00:00:00.000Z" -> DAY_MS

\* the options GET /events hands to getEvents
GetEventsOptions(query) ==
   LET o1 == [limit |-> IF Truthy(query, "limit") THEN parseInt(query.limit)
                        ELSE 50]
       o2 == IF Has(query, "integration")
             THEN Assign(o1, "integration", query.integration) ELSE o1
       o3 == IF Has(query, "status")
             THEN Assign(o2, "status", query.status) ELSE o2
       o4 == IF Has(query, "resolution_status")
             THEN Assign(o3, "resolutionStatus", query.resolution_status) ELSE o3
       o5 == IF Truthy(query, "since")
             THEN Assign(o4, "since", newDate(query.since)) ELSE o4
   IN  o5

\* the handler of GET /events
GetEventsRoute(evts, query) ==
   LET found == getAll(evts, GetEventsOptions(query))
   IN  [status |-> 200, body |-> [events |-> found, total |-> Len(found)]]

\* classifications handed to updateClassification by its callers
Classifications ==
   { [category |-> "auth", severity |-> "high", cause |-> "Token expired",
      suggestedFix |-> "Re-authenticate", affectedData |-> <<"all">>,
      businessImpact |-> "Sync blocked"],
     [category |-> "network", severity |-> "low", cause |-> "Test",
      suggestedFix |-> "Test"] }

\* the classification handed to updateClassification when the store is driven
\* directly
StoreClassification ==
   CHOOSE c \in Classifications : c.category = "auth"

(***************************************************************************)
(* The classifier (classifyError and its rule-based fallback).             *)
(***************************************************************************)
\* a JSON value that is not a string: the number 42
NumberValue == "<number 42>"

\* what a call ends with: a returned value or a raised error
Returned(v) == [ok |-> TRUE, value |-> v]
Raised(e) == [ok |-> FALSE, error |-> e]

\* getMockClassification: the first rule that the lower-cased message or code
\* satisfies; toLowerCase is not a function of a message that is not a string
getMockClassification(event) ==
   LET message == IF Has(event, "error") /\ Has(event.error, "message")
                  THEN event.error.message ELSE Undefined
       MessageIncludes(keyword) ==
          message # Undefined /\ LowerIncludes(message, keyword)
       CodeIs(code) ==
          /\ Has(event, "error") /\ Has(event.error, "code")
          /\ ToLowerCase(Chars[event.error.code]) = Chars[code]
   IN  IF message = NumberValue THEN Raised("TypeError")
       ELSE IF \/ MessageIncludes("spending")
               \/ MessageIncludes("spending_limit")
               \/ MessageIncludes("declined")
               \/ CodeIs("card_declined")
       THEN Returned(
          [category |-> "spending_control",
           severity |-> "high",
           cause |-> <<"Card transaction was declined due to spending controls or insufficient funds.">>,
           suggestedFix |-> "Review the cardholder limits in Stripe. If legitimate, temporarily increase the limit or use an alternative payment method.",
           affectedData |-> <<"card_transaction">>,
           businessImpact |-> "Field worker may be unable to purchase materials, potentially delaying job progress."])
       ELSE IF \/ MessageIncludes("oauth")
               \/ MessageIncludes("token expired")
               \/ MessageIncludes("unauthorized")
               \/ MessageIncludes("re-auth")
               \/ CodeIs("401")
       THEN Returned(
          [category |-> "auth",
           severity |-> "high",
           cause |-> <<"Authentication failed for ", event.integration,
                       ". The access token may have expired or been revoked.">>,
           suggestedFix |-> "Re-authenticate the integration by going to Settings > Integrations and clicking \"Reconnect\" for this service.",
           affectedData |-> <<"all sync operations">>,
           businessImpact |-> "No data will sync until the connection is restored, potentially affecting payroll and job costing."])
       ELSE IF \/ MessageIncludes("prevailing wage")
               \/ MessageIncludes("wage rate")
               \/ MessageIncludes("apprentice")
               \/ MessageIncludes("fringe")
               \/ MessageIncludes("wh-347")
               \/ MessageIncludes("lcptracker")
               \/ MessageIncludes("certified payroll")
       THEN Returned(
          [category |-> "compliance",
           severity |-> "critical",
           cause |-> <<"Certified payroll compliance check failed. Required wage or worker data is missing or incorrect.">>,
           suggestedFix |-> "Review the affected worker classifications and wage rates. Ensure all required fields (apprentice info, prevailing wage rates, fringe benefits) are configured before the submission deadline.",
           affectedData |-> <<"certified_payroll_report", "worker_classifications">>,
           businessImpact |-> "Compliance reports cannot be submitted until resolved, risking regulatory penalties and payment delays."])
       ELSE IF \/ MessageIncludes("rate limit")
               \/ MessageIncludes("too many requests")
               \/ MessageIncludes("429")
               \/ CodeIs("429")
       THEN Returned(
          [category |-> "rate_limit",
           severity |-> "low",
           cause |-> <<event.integration,
                       " rate limit exceeded. Too many requests were made in a short period.">>,
           suggestedFix |-> "This will auto-resolve. If frequent, consider spacing out bulk operations or requesting a higher rate limit from the provider.",
           affectedData |-> <<"pending sync items">>,
           businessImpact |-> "Temporary delay in data sync. Will automatically retry."])
       ELSE IF \/ MessageIncludes("validation")
               \/ MessageIncludes("required")
               \/ MessageIncludes("invalid")
               \/ MessageIncludes("null")
       THEN Returned(
          [category |-> "data_validation",
           severity |-> "medium",
           cause |-> <<"Data validation failed. The ", event.integration,
                       " payload contains missing or invalid fields.">>,
           suggestedFix |-> "Review the failed record for missing required fields. Check if recent changes in the source system affected the data format.",
           affectedData |-> <<event.eventType>>,
           businessImpact |-> "Affected records will not sync until the data issues are resolved."])
       ELSE IF \/ MessageIncludes("archived")
               \/ MessageIncludes("not found")
               \/ MessageIncludes("entity not found")
               \/ MessageIncludes("mapping failed")
               \/ CodeIs("404")
       THEN Returned(
          [category |-> "data_state_mismatch",
           severity |-> "medium",
           cause |-> <<"The referenced entity in ", event.integration,
                       " has been archived, deleted, or cannot be found. This often happens when data is modified in the external system without updating the integration.">>,
           suggestedFix |-> "Review the affected record in both systems. Either restore the entity in the source system or update the mapping in your application.",
           affectedData |-> <<event.eventType>>,
           businessImpact |-> "Related data will not sync until the entity reference is corrected."])
       ELSE Returned(
          [category |-> "unknown",
           severity |-> "medium",
           cause |-> <<"An unexpected error occurred with ", event.integration, ": ",
                       IF message = Undefined THEN "undefined" ELSE message>>,
           suggestedFix |-> "Review the error details and contact support if the issue persists. Check the integration logs for more context.",
           affectedData |-> <<event.eventType>>,
           businessImpact |-> "Some data may not sync correctly until the issue is resolved."])

\* JSON.parse on the texts of the model: the object a text denotes, or a
\* SyntaxError
JSONObjects ==
   "{\"category\":\"network\",\"severity\":\"low\",\"cause\":\"Connection reset\"}" :>
      [category |-> "network", severity |-> "low", cause |-> "Connection reset"]
   @@ "{\"category\":\"auth\",\"severity\":\"critical\",\"cause\":\"Token revoked\"}" :>
      [category |-> "auth", severity |-> "critical", cause |-> "Token revoked"]
   @@ "{\"category\":\"auth\"}" :> [category |-> "auth"]
   @@ "{\"category\":\"billing\",\"severity\":\"urgent\",\"cause\":\"Card expired\"}" :>
      [category |-> "billing", severity |-> "urgent", cause |-> "Card expired"]

\* the texts of the model that are not JSON
InvalidJSON == {"{\"category\":\"auth\",\"sever"}

\* JSON.parse of a text of the model; other texts have no value here
JSONParse(text) ==
   IF text \in InvalidJSON THEN Raised("SyntaxError")
   ELSE Returned(JSONObjects[text])

\* what openai.chat.completions.create ends with: a rejection, or a response
\* whose first choice has no content, an empty content, a text cut off by
\* max_tokens, or the text of a JSON object
CapabilityOutcomes ==
   {[kind |-> "throws"],
    [kind |-> "response", content |-> Undefined],
    [kind |-> "response", content |-> ""]}
   \cup {[kind |-> "response", content |-> text] : text \in InvalidJSON}
   \cup {[kind |-> "response", content |-> text] : text \in DOMAIN JSONObjects}

\* the capability is not called
NoOutcome == [kind |-> "none"]

\* what a suspended classify request resumes with
ClassifyOutcomes == CapabilityOutcomes \cup {NoOutcome}

\* the try block of classifyError once the capability has ended with outcome
classifyWithOpenAI(event, outcome) ==
   IF outcome.kind # "response" THEN getMockClassification(event)
   ELSE IF outcome.content \in {Undefined, ""} THEN getMockClassification(event)
   ELSE LET parsed == JSONParse(outcome.content)
        IN  IF parsed.ok THEN parsed ELSE getMockClassification(event)

\* classifyError without its first test: an event without an error reaches the
\* classifiers
classifyError_unguarded(event, client, outcome) ==
   IF ~client THEN getMockClassification(event)
   ELSE classifyWithOpenAI(event, outcome)

\* classifyError; client is whether the OpenAI client exists
classifyError(event, client, outcome) ==
   IF ~Has(event, "error") \/ event.status # "failure"
   THEN Raised("Event has no error to classify")
   ELSE IF ~client THEN getMockClassification(event)
   ELSE classifyWithOpenAI(event, outcome)

\* classifyError reaches the call of the capability
CallsCapability(event, client) ==
   Has(event, "error") /\ event.status = "failure" /\ client

(***************************************************************************)
(* The Procore webhook receiver.                                           *)
(***************************************************************************)
\* error_simulation of the request body; Undefined is a body without it
Simulations ==
   {Undefined, "", "project_archived", "cost_code_mismatch", "auth_expired",
    "Wage rate missing: rate limit check skipped",
    "An unexpected internal server error occurred", NumberValue}

\* the values of error_simulation that `error_simulation ? .. : ..` takes for
\* false
FalsySimulations == {Undefined, ""}

\* the CreateEventInput that the receiver builds at the given time from a body
\* whose event_type is project.sync and that has no resource; the dates of the
\* context are milliseconds
ProcoreInput(error_simulation, time) ==
   LET input == [integration |-> "procore",
                 eventType |-> "project.sync",
                 status |-> IF error_simulation \in FalsySimulations
                            THEN "success" ELSE "failure",
                 payload |-> "payload1"]
   IN  IF error_simulation \in FalsySimulations THEN input
       ELSE IF error_simulation = "project_archived"
       THEN Assign(input, "error",
               [message |-> "Entity not found: Project #12847 has been archived in Procore",
                code |-> "404",
                context |-> [job_id |-> "JOB-4821",
                             procore_project_id |-> 12847,
                             last_successful_sync |-> time - 86400000]])
       ELSE IF error_simulation = "cost_code_mismatch"
       THEN Assign(input, "error",
               [message |-> "Cost code mapping failed: Code \"03-100\" exists in Procore but has no matching code in Miter",
                code |-> "MAPPING_ERROR",
                context |-> [procore_cost_code |-> "03-100",
                             procore_code_name |-> "Concrete - Formwork",
                             suggestion |-> "Create matching cost code or update mapping"]])
       ELSE IF error_simulation = "auth_expired"
       THEN Assign(input, "error",
               [message |-> "OAuth token expired. Re-authentication required.",
                code |-> "401",
                context |-> [token_expired_at |-> time - 3600000,
                             scopes |-> <<"read", "write">>]])
       ELSE Assign(input, "error",
               [message |-> error_simulation, code |-> "UNKNOWN"])

(***************************************************************************)
(* The store, driven by arbitrary calls of its methods.                    *)
(***************************************************************************)
\* ids handed to the store: every id issued so far, and one never issued
KnownIds == 1..nextId

NoResult == [op |-> "none"]
IdleReqs == [r \in 1..MaxReqs |-> [pc |-> "idle"]]

\* the module state of syncStore when it is loaded
InitSync ==
   /\ pipelines = <<>>
   /\ instances = <<>>
   /\ executions = <<>>
   /\ uuids = 0
   /\ syncs = 0

InitStore ==
   /\ events = <<>>
   /\ maxEvents \in Caps
   /\ nextId = 1
   /\ now = 0
   /\ ticks = 0
   /\ ops = 0
   /\ sinceClear = 0

Init ==
   /\ InitStore
   /\ InitSync
   /\ openai = FALSE
   /\ reqs = IdleReqs
   /\ invoked = <<>>
   /\ result = NoResult

Create(input) ==
   /\ events' = create(events, maxEvents, input, nextId, now)
   /\ nextId' = nextId + 1
   /\ sinceClear' = sinceClear + 1
   /\ result' = NoResult
   /\ UNCHANGED <<maxEvents, now, ticks, ops, classifyVars, syncVars>>

UpdateClassification(id, c) ==
   /\ events' = updateClassification(events, id, c)
   /\ ops' = ops + 1
   /\ result' = NoResult
   /\ UNCHANGED <<maxEvents, nextId, now, ticks, sinceClear, classifyVars, syncVars>>

Acknowledge(id, by) ==
   /\ events' = acknowledge(events, id, by, now)
   /\ ops' = ops + 1
   /\ result' = NoResult
   /\ UNCHANGED <<maxEvents, nextId, now, ticks, sinceClear, classifyVars, syncVars>>

Resolve(id, by, notes) ==
   /\ events' = resolve(events, id, by, notes, now)
   /\ ops' = ops + 1
   /\ result' = NoResult
   /\ UNCHANGED <<maxEvents, nextId, now, ticks, sinceClear, classifyVars, syncVars>>

Reopen(id) ==
   /\ events' = reopen(events, id)
   /\ ops' = ops + 1
   /\ result' = NoResult
   /\ UNCHANGED <<maxEvents, nextId, now, ticks, sinceClear, classifyVars, syncVars>>

Clear ==
   /\ events' = clear(events)
   /\ sinceClear' = 0
   /\ result' = NoResult
   /\ UNCHANGED <<maxEvents, nextId, now, ticks, ops, classifyVars, syncVars>>

\* time passes between two calls
Tick(d) ==
   /\ now' = now + d
   /\ ticks' = ticks + 1
   /\ result' = NoResult
   /\ UNCHANGED <<events, maxEvents, nextId, ops, sinceClear, classifyVars, syncVars>>

\* the calls that set a classification or a resolution
Mutate ==
   \/ \E id \in KnownIds : UpdateClassification(id, StoreClassification)
   \/ \E id \in KnownIds, by \in Actors : Acknowledge(id, by)
   \/ \E id \in KnownIds, a \in ResolveArgs : Resolve(id, a.by, a.notes)
   \/ \E id \in KnownIds : Reopen(id)

Next ==
   \/ nextId <= MaxCreates /\ \E input \in StoreInputs : Create(input)
   \/ ops < MaxOps /\ Mutate
   \/ Clear
   \/ ticks < MaxTicks /\ Tick(1)

Spec == Init /\ [][Next]_vars

(***************************************************************************)
(* The store filled beyond its capacity.                                   *)
(***************************************************************************)
NextCap ==
   \/ nextId <= MaxCapCreates /\ \E input \in StoreInputs : Create(input)
   \/ ops < MaxCapOps /\ Mutate
   \/ Clear

SpecCap == Init /\ [][NextCap]_vars

(***************************************************************************)
(* Helpers of the properties.                                              *)
(***************************************************************************)
Min(a, b) == IF a < b THEN a ELSE b
Max(a, b) == IF a > b THEN a ELSE b

IdsOf(evts) == {evts[i].id : i \in 1..Len(evts)}
IdSeq(evts) == [i \in 1..Len(evts) |-> evts[i].id]

\* the stored event with the given id; only used when there is one
Stored(id) == events[FindIndex(events, id)]
StoredNext(id) == events'[FindIndex(events', id)]
IsStored(id) == FindIndex(events, id) # 0

(***************************************************************************)
(* C1: the store never holds more than maxEvents events; after k create    *)
(* calls with no clear in between it holds exactly the min(k, maxEvents)   *)
(* most recently created events, newest first; and a create on a full      *)
(* store removes exactly one event, the oldest one.                        *)
(***************************************************************************)
C1_Retained ==
   /\ Len(events) <= maxEvents
   /\ IdSeq(events) = [i \in 1..Min(sinceClear, maxEvents) |-> nextId - i]

C1_EvictStep ==
   (nextId' # nextId /\ Len(events) = maxEvents) =>
      /\ Len(events') = maxEvents
      /\ IdsOf(events') =
            (IdsOf(events) \ {events[Len(events)].id}) \cup {nextId}
      /\ \A i \in 1..Len(events) : events[Len(events)].id <= events[i].id

C1_BoundedStore == [](C1_Retained) /\ [][C1_EvictStep]_vars

\* more creates than the cap since the last clear, into a store that held
\* several events
C1_Witness ==
   /\ maxEvents > 1
   /\ sinceClear > maxEvents
   /\ Len(events) = maxEvents
   /\ ops > 0

(***************************************************************************)
(* C2: a newly created failure event has no resolution record and counts   *)
(* as open; reopen on a failure event, whatever its resolution, leaves the *)
(* record exactly {status: open}.                                          *)
(***************************************************************************)
C2_CreateStep ==
   \A input \in CreateInputs :
      (Create(input) /\ input.status = "failure") =>
         /\ ~Has(events'[1], "resolution")
         /\ EffectiveResolution(events'[1]) = "open"

C2_ReopenStep ==
   \A id \in KnownIds :
      (Reopen(id) /\ IsStored(id) /\ Stored(id).status = "failure") =>
         StoredNext(id).resolution = [status |-> "open"]

C2_ReopenResets == [][C2_CreateStep /\ C2_ReopenStep]_vars

\* a failure event reopened after an acknowledge and a resolve
C2_Witness ==
   /\ ops >= 3
   /\ \E i \in 1..Len(events) :
         /\ events[i].status = "failure"
         /\ Has(events[i], "resolution")
         /\ events[i].resolution = [status |-> "open"]

(***************************************************************************)
(* C3: every event that carries a resolution record or a classification    *)
(* has status failure, and acknowledge, resolve and reopen on a success or *)
(* pending event mutate nothing.                                           *)
(***************************************************************************)
C3_OnlyFailuresCarry ==
   \A i \in 1..Len(events) :
      (Has(events[i], "resolution") \/ Has(events[i], "classification")) =>
         events[i].status = "failure"

C3_NoOpStep ==
   \A id \in KnownIds :
      (/\ IsStored(id)
       /\ Stored(id).status # "failure"
       /\ \/ \E by \in Actors : Acknowledge(id, by)
          \/ \E a \in ResolveArgs : Resolve(id, a.by, a.notes)
          \/ Reopen(id))
      => events' = events

C3_FailureOnly == [](C3_OnlyFailuresCarry) /\ [][C3_NoOpStep]_vars

(***************************************************************************)
(* calculateStatus applied to every success rate and error count.          *)
(***************************************************************************)
InitStatus ==
   /\ InitStore
   /\ InitSync
   /\ openai = FALSE
   /\ reqs = IdleReqs
   /\ invoked = <<>>
   /\ \E successRate \in 0..100, errorsLast24h \in 0..MaxErrors :
         result = [op |-> "input", successRate |-> successRate,
                   errorsLast24h |-> errorsLast24h]

CalculateStatus ==
   /\ result.op = "input"
   /\ result' = [op |-> "calculateStatus",
                 successRate |-> result.successRate,
                 errorsLast24h |-> result.errorsLast24h,
                 status |-> calculateStatus(result.successRate,
                                            result.errorsLast24h)]
   /\ UNCHANGED <<storeVars, classifyVars, syncVars>>

NextStatus == CalculateStatus

SpecStatus == InitStatus /\ [][NextStatus]_vars

(***************************************************************************)
(* C7: calculateStatus returns healthy iff successRate >= 98 and           *)
(* errorsLast24h < 5; otherwise degraded iff successRate >= 90 or          *)
(* errorsLast24h < 20; otherwise down.  (98,4) and (100,0) are healthy,    *)
(* (98,5) and (91,25) degraded, (85,25) down.                              *)
(***************************************************************************)
C7_Thresholds ==
   result.op = "calculateStatus" =>
      LET sr == result.successRate
          e == result.errorsLast24h
          st == result.status
      IN  /\ st \in {"healthy", "degraded", "down"}
          /\ st = "healthy" <=> (sr >= 98 /\ e < 5)
          /\ st = "degraded" <=> (~(sr >= 98 /\ e < 5) /\ (sr >= 90 \/ e < 20))
          /\ st = "down" <=> (sr < 90 /\ e >= 20)
          /\ (sr = 98 /\ e = 4) => st = "healthy"
          /\ (sr = 98 /\ e = 5) => st = "degraded"
          /\ (sr = 91 /\ e = 25) => st = "degraded"
          /\ (sr = 85 /\ e = 25) => st = "down"
          /\ (sr = 100 /\ e = 0) => st = "healthy"

\* calculateStatus(91, 25) has returned degraded
C7_Witness ==
   /\ result.op = "calculateStatus"
   /\ result.successRate = 91
   /\ result.errorsLast24h = 25
   /\ result.status = "degraded"

(***************************************************************************)
(* The store read by queries.  Every read is taken from a state reached by *)
(* creates, clock advances and resolution calls, and its returned value is *)
(* kept in result until the next call.                                     *)
(***************************************************************************)
\* the inputs of create while the queries are explored
QueryInputs == {input \in CreateInputs : input.status = "failure" => Has(input, "error")}

\* the options handed to getPaginated
QueryOptions ==
   { EmptyObject,
     [limit |-> 1], [offset |-> 1], [offset |-> 1, limit |-> 1],
     [offset |-> 2, limit |-> 1], [offset |-> 0, limit |-> 2],
     [offset |-> 3, limit |-> 2],
     [integration |-> "procore"], [integration |-> "quickbooks"],
     [status |-> "failure"], [status |-> "success", limit |-> 1],
     [resolutionStatus |-> "open"], [resolutionStatus |-> "acknowledged"],
     [resolutionStatus |-> "resolved", offset |-> 1],
     [since |-> 1], [since |-> DAY_MS, limit |-> 1],
     [search |-> "sync"], [search |-> "PRO"], [search |-> "40"],
     [search |-> "OAUTH", status |-> "failure"],
     [integration |-> "procore", status |-> "failure", limit |-> 1],
     [status |-> "failure", resolutionStatus |-> "open", offset |-> 1, limit |-> 1],
     [sortBy |-> "timestamp", sortOrder |-> "asc"],
     [sortBy |-> "integration", sortOrder |-> "asc", limit |-> 1],
     [sortBy |-> "eventType"], [sortBy |-> "status", sortOrder |-> "desc"] }

\* the query strings of GET /events
RouteQueries ==
   { EmptyObject, [limit |-> "1"], [limit |-> "2"], [limit |-> "10"],
     [integration |-> "procore", limit |-> "1"],
     [status |-> "failure"], [status |-> ""],
     [resolution_status |-> "open", limit |-> "1"],
     [since |-> "1970-01-01T00:00:00.001Z"],
     [since |-> "1970-01-02T00:00:00.000Z", limit |-> "1"] }

\* the integrations whose statistics are read
StatsIntegrations == {"procore", "gusto", "quickbooks"}

(***************************************************************************)
(* The arrays a read works on.  An array is an object: the heap is the     *)
(* sequence of the arrays allocated so far, this.events at address 1, and  *)
(* a variable of the method holds an address.  filter and the spread       *)
(* allocate a new array, sort works in place on the array it is called on. *)
(***************************************************************************)
\* let filtered = this.events
CopyEvents_alias(heap) == [heap |-> heap, filtered |-> 1]

\* let filtered = [...this.events]
CopyEvents(heap) == [heap |-> Append(heap, heap[1]), filtered |-> Len(heap) + 1]

\* one of the filters of getPaginated applies
AnyFilter(options) ==
   \/ Truthy(options, "integration")
   \/ Truthy(options, "status")
   \/ Truthy(options, "resolutionStatus")
   \/ Has(options, "since")
   \/ Truthy(options, "search")

\* filtered = filtered.filter(..), for every filter that applies: the array of
\* the last filter is the one the variable holds
FilterStep(run, options) ==
   IF AnyFilter(options)
   THEN [heap |-> Append(run.heap, Filtered(run.heap[run.filtered], options)),
         filtered |-> Len(run.heap) + 1]
   ELSE run

\* filtered.sort(..)
SortStep(run, options) ==
   [run EXCEPT !.heap[run.filtered] =
      Sort(@, IF Truthy(options, "sortBy") THEN options.sortBy ELSE "timestamp",
           IF Truthy(options, "sortOrder") THEN options.sortOrder ELSE "desc")]

\* the heap and the variable filtered of getPaginated before its slice
getPaginatedRun(evts, options) ==
   SortStep(FilterStep(CopyEvents(<<evts>>), options), options)

\* this.events after getPaginated
EventsAfterGetPaginated(evts, options) == getPaginatedRun(evts, options).heap[1]

\* this.events after getStats: the two filters allocate new arrays
EventsAfterGetStats(evts, integration, time) ==
   LET Keep(e) == e.integration = integration /\ e.timestamp >= time - DAY_MS
       IsFailure(e) == e.status = "failure"
       integrationEvents == Append(<<evts>>, SelectSeq(evts, Keep))
       failures == Append(integrationEvents,
                          SelectSeq(integrationEvents[2], IsFailure))
   IN  failures[1]

\* this.events after getById: find allocates nothing
EventsAfterGetById(evts, id) == <<evts>>[1]

\* the variables of the store that no read assigns
readFrame == <<maxEvents, nextId, now, ticks, ops, sinceClear>>

GetPaginated(options) ==
   /\ result' = [op |-> "getPaginated", options |-> options, at |-> now,
                 value |-> getPaginated(events, options)]
   /\ events' = EventsAfterGetPaginated(events, options)
   /\ UNCHANGED <<readFrame, classifyVars, syncVars>>

GetAll(options) ==
   /\ result' = [op |-> "getAll", options |-> options, at |-> now,
                 value |-> getAll(events, options)]
   /\ events' = EventsAfterGetPaginated(events, options)
   /\ UNCHANGED <<readFrame, classifyVars, syncVars>>

GetById(id) ==
   /\ result' = [op |-> "getById", id |-> id, at |-> now,
                 value |-> IF FindIndex(events, id) # 0
                           THEN [found |-> TRUE, event |-> getById(events, id)]
                           ELSE [found |-> FALSE]]
   /\ events' = EventsAfterGetById(events, id)
   /\ UNCHANGED <<readFrame, classifyVars, syncVars>>

GetStats(integration) ==
   /\ result' = [op |-> "getStats", integration |-> integration, at |-> now,
                 value |-> getStats(events, integration, now)]
   /\ events' = EventsAfterGetStats(events, integration, now)
   /\ UNCHANGED <<readFrame, classifyVars, syncVars>>

GetIntegrationHealth(integration) ==
   /\ result' = [op |-> "getIntegrationHealth", integration |-> integration,
                 at |-> now,
                 value |-> getIntegrationHealth(events, integration, now)]
   /\ events' = EventsAfterGetStats(events, integration, now)
   /\ UNCHANGED <<readFrame, classifyVars, syncVars>>

GetEvents(query) ==
   /\ result' = [op |-> "GET /events", query |-> query, at |-> now,
                 options |-> GetEventsOptions(query),
                 value |-> GetEventsRoute(events, query)]
   /\ events' = EventsAfterGetPaginated(events, GetEventsOptions(query))
   /\ UNCHANGED <<readFrame, classifyVars, syncVars>>

\* the number of creates, clock advances and resolution calls so far
QuerySteps == (nextId - 1) + ticks + ops

NextQuery ==
   \/ QuerySteps < MaxQuerySteps /\ \E input \in QueryInputs : Create(input)
   \/ QuerySteps < MaxQuerySteps /\ \E d \in TickSteps : Tick(d)
   \/ QuerySteps < MaxQuerySteps /\ \E id \in KnownIds : Acknowledge(id, "alice")
   \/ QuerySteps < MaxQuerySteps /\
         \E id \in KnownIds : Resolve(id, Undefined, Undefined)
   \/ Clear
   \/ result = NoResult /\ \E options \in QueryOptions : GetPaginated(options)
   \/ result = NoResult /\ \E integration \in StatsIntegrations : GetStats(integration)
   \/ result = NoResult /\
         \E integration \in StatsIntegrations : GetIntegrationHealth(integration)
   \/ result = NoResult /\ \E query \in RouteQueries : GetEvents(query)

SpecQuery == Init /\ [][NextQuery]_vars

(***************************************************************************)
(* Helpers of the query properties.                                        *)
(***************************************************************************)
\* text contains term, case-insensitively
ContainsIgnoringCase(text, term) ==
   Includes(ToLowerCase(Chars[text]), ToLowerCase(Chars[term]))

\* the event satisfies every filter that the options supply
Matches(e, o) ==
   /\ Has(o, "integration") => e.integration = o.integration
   /\ Has(o, "status") => e.status = o.status
   /\ Has(o, "resolutionStatus") =>
         IF Has(e, "resolution") THEN e.resolution.status = o.resolutionStatus
         ELSE o.resolutionStatus = "open"
   /\ Has(o, "since") => e.timestamp >= o.since
   /\ Has(o, "search") =>
         \/ ContainsIgnoringCase(e.eventType, o.search)
         \/ ContainsIgnoringCase(e.integration, o.search)
         \/ Has(e, "error") /\ Has(e.error, "message")
               /\ ContainsIgnoringCase(e.error.message, o.search)
         \/ Has(e, "error") /\ Has(e.error, "code")
               /\ ContainsIgnoringCase(e.error.code, o.search)

\* the number of stored events that match the filters
MatchCount(o) == Cardinality({i \in 1..Len(events) : Matches(events[i], o)})

OffsetOf(o) == IF Has(o, "offset") THEN o.offset ELSE 0
LimitOf(o) == IF Has(o, "limit") THEN o.limit ELSE DEFAULT_PAGE_SIZE

\* the stored events of an integration within the trailing 24 hours
Recent(integration) ==
   {i \in 1..Len(events) :
      /\ events[i].integration = integration
      /\ events[i].timestamp >= now - DAY_MS}

\* the default store after 98 successes followed by 2 failures of procore, each
\* create having put its event in front
ScenarioStore ==
   [i \in 1..100 |->
      IF i <= 2
      THEN NewEvent([integration |-> "procore", eventType |-> "project.sync",
                     status |-> "failure", payload |-> "payload1",
                     error |-> [message |-> "Validation failed", code |-> "400"]],
                    101 - i, 0)
      ELSE NewEvent([integration |-> "procore", eventType |-> "project.sync",
                     status |-> "success", payload |-> "payload1"], 101 - i, 0)]

ScenarioHealth == getIntegrationHealth(ScenarioStore, "procore", 0)

(***************************************************************************)
(* The statistics of a store of the default capacity.  The store has seen  *)
(* `older` events of procore at time 0 and, a day later, one event of      *)
(* gusto and `total` events of procore, one per millisecond, the first     *)
(* `failures` of them failures; it is read at the time of its last create  *)
(* and a day after.                                                        *)
(***************************************************************************)
\* the input of the k-th create (from 1)
StatsInput(k, failures, older) ==
   IF k = older + 1
   THEN [integration |-> "gusto", eventType |-> "employee.sync",
         status |-> "failure", payload |-> "payload1",
         error |-> [message |-> "Rate limit exceeded", code |-> "429"]]
   ELSE IF k > older + 1 /\ k <= older + 1 + failures
   THEN [integration |-> "procore", eventType |-> "project.sync",
         status |-> "failure", payload |-> "payload1",
         error |-> [message |-> "Validation failed", code |-> "400"]]
   ELSE [integration |-> "procore", eventType |-> "project.sync",
         status |-> "success", payload |-> "payload1"]

\* the store after the creates, each having put its event in front
StatsStore(total, failures, older) ==
   LET n == older + 1 + total
   IN  [i \in 1..n |->
          LET k == n + 1 - i
          IN  NewEvent(StatsInput(k, failures, older), k,
                       IF k <= older THEN 0 ELSE DAY_MS + (k - older - 1))]

InitStats ==
   /\ \E total \in 0..MaxStatsEvents : \E failures \in 0..total :
         \E older \in 0..1 :
            /\ events = StatsStore(total, failures, older)
            /\ nextId = older + total + 2
            /\ sinceClear = older + total + 1
            /\ now = DAY_MS + total
   /\ maxEvents = MAX_EVENTS_IN_MEMORY
   /\ ticks = 0
   /\ ops = 0
   /\ InitSync
   /\ openai = FALSE
   /\ reqs = IdleReqs
   /\ invoked = <<>>
   /\ result = NoResult

NextStats ==
   \/ result = NoResult /\ \E integration \in StatsIntegrations : GetStats(integration)
   \/ result = NoResult /\
         \E integration \in StatsIntegrations : GetIntegrationHealth(integration)
   \/ ticks < MaxTicks /\ Tick(DAY_MS)

SpecStats == InitStats /\ [][NextStats]_vars

(***************************************************************************)
(* C8: getStats(X) returns the number of stored events of X within the     *)
(* trailing 24 hours, the number of failures among them, the success rate  *)
(* rounded to the nearest integer (100 when there is no event) and the     *)
(* timestamp of the most recently created of them (null when there is      *)
(* none); 98 successes and 2 failures give 98, 2 and healthy.              *)
(***************************************************************************)
C8_Stats ==
   /\ result.op = "getStats" =>
         LET v == result.value
             recent == Recent(result.integration)
             total == Cardinality(recent)
             failures ==
                Cardinality({i \in recent : events[i].status = "failure"})
             diff == 100 * (total - failures) - v.successRate * total
         IN  /\ v.eventsLast24h = total
             /\ v.errorsLast24h = failures
             /\ total = 0 => v.successRate = 100 /\ v.lastSync = Null
             /\ total > 0 =>
                   /\ 2 * diff <= total /\ -2 * diff <= total
                   /\ \E i \in recent :
                         /\ \A j \in recent : events[j].id <= events[i].id
                         /\ v.lastSync = events[i].timestamp
   /\ ScenarioHealth.eventsLast24h = 100
   /\ ScenarioHealth.successRate = 98
   /\ ScenarioHealth.errorsLast24h = 2
   /\ ScenarioHealth.status = "healthy"

\* getStats has counted three events with one failure and answered 67, the
\* quotient being 66.67, while the store holds an older event of the same
\* integration outside the window and an event of another integration
C8_Witness ==
   /\ result.op = "getStats"
   /\ result.value.eventsLast24h = 3
   /\ result.value.errorsLast24h = 1
   /\ result.value.successRate = 67
   /\ Len(events) = 5
   /\ Cardinality({i \in 1..Len(events) :
                     events[i].integration = result.integration}) = 4

(***************************************************************************)
(* C9: for every query the returned total is the number of stored events   *)
(* that match the filters, whatever the offset and the limit; the page has *)
(* min(limit, max(0, total - offset)) events; hasMore is true exactly when *)
(* offset + limit < total.                                                 *)
(***************************************************************************)
C9_StoreQuery ==
   result.op = "getPaginated" =>
      LET o == result.options
          v == result.value
      IN  /\ v.total = MatchCount(o)
          /\ Len(v.events) = Min(LimitOf(o), Max(0, v.total - OffsetOf(o)))
          /\ v.hasMore <=> (OffsetOf(o) + LimitOf(o) < v.total)

C9_RouteQuery ==
   result.op = "GET /events" =>
      LET o == result.options
          body == result.value.body
      IN  /\ body.total = MatchCount(o)
          /\ Len(body.events) = Min(LimitOf(o), Max(0, body.total - OffsetOf(o)))

C9_TotalAndPage == C9_StoreQuery /\ C9_RouteQuery

(***************************************************************************)
(* C10: events are held newest first: a query with no filters and the      *)
(* default sort returns the stored events in reverse creation order, with  *)
(* non-increasing timestamps, the later-created first among equal          *)
(* timestamps.                                                             *)
(***************************************************************************)
ReverseCreationOrder(page) ==
   /\ Len(page) = Min(Len(events), DEFAULT_PAGE_SIZE)
   /\ \A i \in 1..Len(page) : page[i] = events[i]
   /\ \A i, j \in 1..Len(page) :
         i < j => /\ page[i].id > page[j].id
                  /\ page[i].timestamp >= page[j].timestamp

C10_NewestFirst ==
   /\ \A i, j \in 1..Len(events) : i < j => events[i].id > events[j].id
   /\ (result.op = "getPaginated" /\ result.options = EmptyObject) =>
         ReverseCreationOrder(result.value.events)
   /\ (result.op = "GET /events" /\ result.query = EmptyObject) =>
         ReverseCreationOrder(result.value.body.events)

\* the default query has returned two events created in the same millisecond
C10_Witness ==
   /\ result.op = "getPaginated"
   /\ result.options = EmptyObject
   /\ Len(result.value.events) >= 2
   /\ result.value.events[1].timestamp = result.value.events[2].timestamp
   /\ now > result.value.events[1].timestamp

(***************************************************************************)
(* POST /events/:id/classify, served while webhooks arrive.  A request     *)
(* takes a slot of reqs; a request that reaches `await classifyError` is   *)
(* suspended (pc = "awaiting") until that promise settles, whether the     *)
(* capability is called or not, and other requests are served meanwhile.   *)
(***************************************************************************)
\* the requests are numbered in the order of their arrival
NextSlot(r) ==
   /\ reqs[r].pc = "idle"
   /\ \A q \in 1..(r - 1) : reqs[q].pc # "idle"

\* the record of an answered request
Done(id, event, called, invokes, started, response) ==
   [pc |-> "done", id |-> id, event |-> event, called |-> called,
    invokes |-> invokes, started |-> started, ended |-> ops,
    response |-> response]

\* the part of the handler after classifyError has ended with outcome: the
\* store is updated and the request answered, or the raised error answered 500
AfterClassify(r, id, event, invokes, started, outcome) ==
   IF outcome.ok
   THEN LET updated == updateClassification(events, id, outcome.value)
            i == FindIndex(updated, id)
            body == [classification |-> outcome.value, cached |-> FALSE]
        IN  /\ events' = updated
            /\ reqs' = [reqs EXCEPT ![r] =
                  Done(id, event, "returned", invokes, started,
                       [status |-> 200,
                        body |-> IF i # 0 THEN Assign(body, "event", updated[i])
                                 ELSE body])]
   ELSE /\ events' = events
        /\ reqs' = [reqs EXCEPT ![r] =
              Done(id, event, "raised", invokes, started,
                   [status |-> 500,
                    body |-> [error |-> "Failed to classify error"]])]

\* the handler up to its first suspension
ClassifyStart(r, id) ==
   /\ NextSlot(r)
   /\ ops' = ops + 1
   /\ result' = NoResult
   /\ UNCHANGED <<maxEvents, nextId, now, ticks, sinceClear, openai, syncVars>>
   /\ LET i == FindIndex(events, id)
       IN  IF i = 0
           THEN /\ reqs' = [reqs EXCEPT ![r] =
                     Done(id, EmptyObject, "no", FALSE, ops,
                          [status |-> 404,
                           body |-> [error |-> "Event not found"]])]
                /\ UNCHANGED <<events, invoked>>
           ELSE IF events[i].status # "failure"
           THEN /\ reqs' = [reqs EXCEPT ![r] =
                     Done(id, events[i], "no", FALSE, ops,
                          [status |-> 400,
                           body |-> [error |-> "Only failed events can be classified"]])]
                /\ UNCHANGED <<events, invoked>>
           ELSE IF Has(events[i], "classification")
           THEN /\ reqs' = [reqs EXCEPT ![r] =
                     Done(id, events[i], "no", FALSE, ops,
                          [status |-> 200,
                           body |-> [event |-> events[i],
                                     classification |-> events[i].classification,
                                     cached |-> TRUE]])]
                /\ UNCHANGED <<events, invoked>>
           ELSE LET calls == CallsCapability(events[i], openai)
                IN  /\ reqs' = [reqs EXCEPT ![r] =
                          [pc |-> "awaiting", id |-> id, event |-> events[i],
                           started |-> ops, calls |-> calls]]
                    /\ invoked' = IF calls THEN Append(invoked, id)
                                  ELSE invoked
                    /\ UNCHANGED events

\* the promise of classifyError settles and the suspended handler runs to its
\* end; the outcome is that of the capability when it was called
ClassifyComplete(r, outcome) ==
   /\ reqs[r].pc = "awaiting"
   /\ IF reqs[r].calls THEN outcome \in CapabilityOutcomes
      ELSE outcome = NoOutcome
   /\ ops' = ops + 1
   /\ result' = NoResult
   /\ UNCHANGED <<maxEvents, nextId, now, ticks, sinceClear, openai, invoked,
                 syncVars>>
   /\ AfterClassify(r, reqs[r].id, reqs[r].event, reqs[r].calls,
                    reqs[r].started,
                    classifyError(reqs[r].event, openai, outcome))

\* the milliseconds by which the clock moves between two reads that one call
\* makes of it
ClockSteps == {0, 1}

\* POST /webhooks/procore
\* the handler reads the clock for the date in the error context of
\* project_archived and of auth_expired, and createEvent reads it again for the
\* timestamp; the other simulations read it once, in createEvent
ProcoreWebhook(error_simulation) ==
   \E d \in IF error_simulation \in {"project_archived", "auth_expired"}
             THEN ClockSteps ELSE {0} :
      /\ events' = create(events, maxEvents,
                          ProcoreInput(error_simulation, now), nextId, now + d)
      /\ now' = now + d
      /\ ticks' = IF d > 0 THEN ticks + 1 ELSE ticks
      /\ nextId' = nextId + 1
      /\ sinceClear' = sinceClear + 1
      /\ result' = NoResult
      /\ UNCHANGED <<maxEvents, ops, classifyVars, syncVars>>

InitRoutes ==
   /\ InitStore
   /\ InitSync
   /\ openai \in BOOLEAN
   /\ reqs = IdleReqs
   /\ invoked = <<>>
   /\ result = NoResult

\* webhook deliveries and classify requests so far
RouteSteps == (nextId - 1) + Cardinality({r \in 1..MaxReqs : reqs[r].pc # "idle"})

NextRoutes ==
   \/ RouteSteps < MaxRouteSteps /\ \E sim \in Simulations : ProcoreWebhook(sim)
   \/ Clear
   \/ RouteSteps < MaxRouteSteps
         /\ \E r \in 1..MaxReqs : \E id \in KnownIds : ClassifyStart(r, id)
   \/ \E r \in 1..MaxReqs : \E outcome \in ClassifyOutcomes :
         ClassifyComplete(r, outcome)

SpecRoutes == InitRoutes /\ [][NextRoutes]_vars

(***************************************************************************)
(* Helpers of the classify properties.                                     *)
(***************************************************************************)
\* request a was answered before request b arrived
Before(a, b) ==
   /\ reqs[a].pc = "done"
   /\ reqs[b].pc # "idle"
   /\ reqs[a].ended < reqs[b].started

\* the classify calls on the event came one after the other
OneAfterTheOther(id) ==
   \A a, b \in 1..MaxReqs :
      (a # b /\ reqs[a].pc # "idle" /\ reqs[b].pc # "idle"
         /\ reqs[a].id = id /\ reqs[b].id = id)
      => Before(a, b) \/ Before(b, a)

\* no classify call on the event of request a arrived before a
FirstCall(a) ==
   \A c \in 1..MaxReqs :
      (reqs[c].pc # "idle" /\ reqs[c].id = reqs[a].id)
      => reqs[a].started <= reqs[c].started

\* how often the capability was invoked for the event
Invocations(id) == Cardinality({k \in 1..Len(invoked) : invoked[k] = id})

(***************************************************************************)
(* C4: when classify is called twice, one call after the other, on the     *)
(* same failure event, the second call returns the identical               *)
(* classification that the first call stored, with cached = true, and the  *)
(* capability is invoked at most once for the event.                       *)
(***************************************************************************)
\* the request found the stored event and its status was failure
OnFailureEvent(r) ==
   /\ reqs[r].pc = "done"
   /\ Has(reqs[r].event, "status")
   /\ reqs[r].event.status = "failure"

C4_SecondCallCached ==
   \A a, b \in 1..MaxReqs :
      (/\ Before(a, b)
       /\ OnFailureEvent(a)
       /\ OnFailureEvent(b)
       /\ reqs[a].id = reqs[b].id
       /\ OneAfterTheOther(reqs[a].id))
      => /\ reqs[a].response.status = 200
         /\ reqs[b].response.status = 200
         /\ reqs[b].response.body.cached
         /\ reqs[b].response.body.classification =
               reqs[a].response.body.classification
         /\ ~reqs[b].invokes
         /\ Invocations(reqs[a].id) <= 1

\* the same for a first call that was answered with a classification it had
\* stored: the second call is answered from the store
C4_CachedAfterStored ==
   \A a, b \in 1..MaxReqs :
      (/\ Before(a, b)
       /\ OnFailureEvent(a)
       /\ OnFailureEvent(b)
       /\ reqs[a].id = reqs[b].id
       /\ OneAfterTheOther(reqs[a].id)
       /\ reqs[a].response.status = 200
       /\ Has(reqs[a].response.body, "event"))
      => /\ reqs[b].response.status = 200
         /\ reqs[b].response.body.cached
         /\ reqs[b].response.body.classification =
               reqs[a].response.body.classification
         /\ ~reqs[b].invokes
         /\ FirstCall(a) => Invocations(reqs[a].id) <= 1

(***************************************************************************)
(* C5: a classification is attached to an event at most once: once a       *)
(* stored event carries a classification, no later step of a classify call *)
(* changes it, the completion of a call that was suspended on the          *)
(* capability included.                                                    *)
(***************************************************************************)
C5_AttachStep ==
   \A i \in 1..Len(events) : \A j \in 1..Len(events') :
      (Has(events[i], "classification") /\ events'[j].id = events[i].id)
      => /\ Has(events'[j], "classification")
         /\ events'[j].classification = events[i].classification

C5_AttachedOnce == [][C5_AttachStep]_vars

(***************************************************************************)
(* C6: for every failure event that has an error object, classifyError     *)
(* returns a classification and never raises, whatever the capability      *)
(* does; the last branch of the fallback is unknown / medium.              *)
(***************************************************************************)
\* classifyError was called for the request on a failure event with an error
Classified(r) ==
   /\ reqs[r].pc = "done"
   /\ reqs[r].called # "no"
   /\ reqs[r].event.status = "failure"
   /\ Has(reqs[r].event, "error")

C6_FallbackIsTotal ==
   LET unmatched == getMockClassification(
                       NewEvent(ProcoreInput("An unexpected internal server error occurred", 0), 1, 0))
   IN  /\ unmatched.ok
       /\ unmatched.value.category = "unknown"
       /\ unmatched.value.severity = "medium"

C6_NeverRaises ==
   /\ \A r \in 1..MaxReqs :
         Classified(r) =>
            /\ reqs[r].called = "returned"
            /\ reqs[r].response.status = 200
            /\ Has(reqs[r].response.body, "classification")
   /\ C6_FallbackIsTotal

\* the same for the events whose error message is a string
C6_StringMessages ==
   /\ \A r \in 1..MaxReqs :
         (Classified(r) /\ reqs[r].event.error.message # NumberValue) =>
            /\ reqs[r].called = "returned"
            /\ reqs[r].response.status = 200
            /\ Has(reqs[r].response.body, "classification")
   /\ C6_FallbackIsTotal

(***************************************************************************)
(* The reads of the store, repeated.  A read may follow another read; the  *)
(* clock may advance between two reads without the store being called.     *)
(***************************************************************************)
\* time passes while the value of the last read is still held
Elapse(d) ==
   /\ now' = now + d
   /\ ticks' = ticks + 1
   /\ UNCHANGED <<events, maxEvents, nextId, ops, sinceClear, classifyVars, result,
                 syncVars>>

\* the options of the repeated queries
ReadOptions ==
   { EmptyObject, [offset |-> 1, limit |-> 1], [status |-> "failure"],
     [since |-> DAY_MS], [search |-> "PRO"],
     [sortBy |-> "timestamp", sortOrder |-> "asc"] }

\* the number of creates, clock advances and resolution calls so far
ReadSteps == (nextId - 1) + ticks + ops

NextReads ==
   \/ ReadSteps < MaxReadSteps /\ \E input \in QueryInputs : Create(input)
   \/ ReadSteps < MaxReadSteps /\ \E d \in TickSteps : Elapse(d)
   \/ ReadSteps < MaxReadSteps /\ \E id \in KnownIds : Acknowledge(id, "alice")
   \/ \E options \in ReadOptions : GetPaginated(options)
   \/ \E options \in ReadOptions : GetAll(options)
   \/ \E id \in KnownIds : GetById(id)
   \/ \E integration \in StatsIntegrations : GetStats(integration)

SpecReads == Init /\ [][NextReads]_vars

(***************************************************************************)
(* C11: getPaginated, getAll, getById and getStats have no side effects:   *)
(* they leave the stored events, their order and every field unchanged, so *)
(* two identical queries with no mutation in between return equal results. *)
(***************************************************************************)
ReadOps == {"getPaginated", "getAll", "getById", "getStats"}

\* the step is a call of a read
ReadStep == result'.op \in ReadOps /\ now' = now

\* the step repeats the read whose value result holds (every mutation in
\* between would have discarded that value)
SameQuery ==
   /\ ReadStep
   /\ result.op = result'.op
   /\ result.op \in {"getPaginated", "getAll"} => result.options = result'.options
   /\ result.op = "getById" => result.id = result'.id
   /\ result.op = "getStats" => result.integration = result'.integration

C11_NoSideEffect == ReadStep => events' = events

C11_ReadsArePure ==
   [][C11_NoSideEffect /\ (SameQuery => result'.value = result.value)]_vars

\* the same with getStats repeated at the same reading of the clock: its window
\* of 24 hours ends at the time of the call
C11_ReadsArePureAtOneTime ==
   [][/\ C11_NoSideEffect
      /\ (SameQuery /\ (result.op = "getStats" => result.at = result'.at))
            => result'.value = result.value]_vars

\* getPaginated has sorted its copy of two events into the order opposite to
\* that of the store
C11_Witness ==
   /\ result.op = "getPaginated"
   /\ Len(events) = 2
   /\ result.value.total = 2
   /\ Len(result.value.events) = 2
   /\ result.value.events[1] = events[2]
   /\ result.value.events[2] = events[1]
   /\ events[1].id > events[2].id

(***************************************************************************)
(* C12: the result of getPaginated is filter, then sort, then slice: the   *)
(* stored events that satisfy every supplied filter, ordered by the        *)
(* requested field and direction (default timestamp descending), cut to    *)
(* [offset, offset + limit).                                               *)
(***************************************************************************)
\* the sign of the order of events[i] and events[j] in the requested field:
\* negative when events[i] has the smaller key
KeyOrder(i, j, sortBy) ==
   IF sortBy = "timestamp" THEN events[i].timestamp - events[j].timestamp
   ELSE IF sortBy = "integration"
   THEN LocaleCompare(events[i].integration, events[j].integration)
   ELSE IF sortBy = "eventType"
   THEN LocaleCompare(events[i].eventType, events[j].eventType)
   ELSE LocaleCompare(events[i].status, events[j].status)

\* events[i] comes before events[j] in the requested order; events with equal
\* keys keep the order of the store
ComesBefore(i, j, o) ==
   LET sortBy == IF Has(o, "sortBy") THEN o.sortBy ELSE "timestamp"
       ascending == Has(o, "sortOrder") /\ o.sortOrder = "asc"
       order == KeyOrder(i, j, sortBy)
   IN  \/ ascending /\ order < 0
       \/ ~ascending /\ order > 0
       \/ order = 0 /\ i < j

C12_FilterSortSlice ==
   result.op = "getPaginated" =>
      LET o == result.options
          page == result.value.events
          matching == {i \in 1..Len(events) : Matches(events[i], o)}
          Position(i) ==
             1 + Cardinality({j \in matching : ComesBefore(j, i, o)})
      IN  /\ Len(page) =
                Min(LimitOf(o), Max(0, Cardinality(matching) - OffsetOf(o)))
          /\ \A k \in 1..Len(page) :
                \E i \in matching :
                   /\ page[k] = events[i]
                   /\ Position(i) = OffsetOf(o) + k

\* a query sorted by integration, ascending, has returned an event that is not
\* the newest of the store
C12_Witness ==
   /\ result.op = "getPaginated"
   /\ Has(result.options, "sortBy")
   /\ result.options.sortBy = "integration"
   /\ Has(result.options, "limit")
   /\ Len(result.value.events) = 1
   /\ Len(events) >= 2
   /\ result.value.events[1] # events[1]

(***************************************************************************)
(* C18: health is calculated independently per integration: creating an    *)
(* event of integration X leaves getEventStats(Y) and the health status of *)
(* every other integration Y unchanged (time held fixed), in every store   *)
(* state, a store at its cap included.                                     *)
(***************************************************************************)
\* the step is a create
CreateStep == nextId' = nextId + 1

\* the statistics and the health of integration y are the same before and
\* after the step
SameHealth(y) ==
   /\ getStats(events', y, now) = getStats(events, y, now)
   /\ getIntegrationHealth(events', y, now).status =
         getIntegrationHealth(events, y, now).status

\* the integrations that lose an event to the step: that of the oldest event
\* when the store is at its cap
Evicted ==
   IF Len(events) = maxEvents THEN {events[Len(events)].integration} ELSE {}

C18_IndependentStep ==
   CreateStep =>
      \A y \in IntegrationType \ {events'[1].integration} : SameHealth(y)

C18_Independent == [][C18_IndependentStep]_vars

\* the same for the integrations that lose no event to the eviction of the
\* oldest event
C18_IndependentUnlessEvictedStep ==
   CreateStep =>
      \A y \in IntegrationType \ ({events'[1].integration} \cup Evicted) :
         SameHealth(y)

C18_IndependentUnlessEvicted == [][C18_IndependentUnlessEvictedStep]_vars

\* a procore event has been created in a store that was at its cap and holds a
\* gusto event
C18_Witness ==
   /\ Len(events) = maxEvents
   /\ sinceClear > maxEvents
   /\ events[1].integration = "procore"
   /\ \E i \in 2..Len(events) : events[i].integration = "gusto"
   /\ getStats(events, "gusto", now).eventsLast24h > 0

(***************************************************************************)
(* C20: acknowledge on a failure event in any resolution state sets the    *)
(* resolution record to exactly {status: acknowledged, acknowledgedAt:     *)
(* now, acknowledgedBy: the actor, 'anonymous' when none is given}; any    *)
(* resolvedAt, resolvedBy and notes of the prior record are discarded.     *)
(***************************************************************************)
C20_AcknowledgeStep ==
   \A id \in KnownIds : \A by \in Actors :
      (Acknowledge(id, by) /\ IsStored(id) /\ Stored(id).status = "failure") =>
         StoredNext(id).resolution =
            [status |-> "acknowledged",
             acknowledgedAt |-> now,
             acknowledgedBy |-> IF by = Undefined THEN "anonymous" ELSE by]

C20_AcknowledgeOverwrites == [][C20_AcknowledgeStep]_vars

\* a failure event acknowledged anonymously, after another resolution call and
\* an advance of the clock
C20_Witness ==
   /\ ops >= 2
   /\ now > 0
   /\ \E i \in 1..Len(events) :
         /\ Has(events[i], "resolution")
         /\ events[i].resolution =
               [status |-> "acknowledged", acknowledgedAt |-> now,
                acknowledgedBy |-> "anonymous"]

(***************************************************************************)
(* POST /events/:id/acknowledge, /resolve and /reopen, and the classify    *)
(* route, driven by arbitrary requests on a store filled by createEvent.   *)
(***************************************************************************)
\* what a handler leaves behind: the events of the store and its response
Handled(evts, status, body) ==
   [events |-> evts, response |-> [status |-> status, body |-> body]]

\* res.json({ event: updatedEvent, message })
Updated(evts, id, message) ==
   Handled(evts, 200, [event |-> getById(evts, id), message |-> message])

acknowledgeRoute(evts, id, acknowledged_by, time) ==
   LET i == FindIndex(evts, id)
   IN  IF i = 0 THEN Handled(evts, 404, [error |-> "Event not found"])
       ELSE IF evts[i].status # "failure"
       THEN Handled(evts, 400, [error |-> "Only failed events can be acknowledged"])
       ELSE Updated(acknowledge(evts, id, acknowledged_by, time), id,
                    "Event acknowledged")

resolveRoute(evts, id, resolved_by, notes, time) ==
   LET i == FindIndex(evts, id)
   IN  IF i = 0 THEN Handled(evts, 404, [error |-> "Event not found"])
       ELSE IF evts[i].status # "failure"
       THEN Handled(evts, 400, [error |-> "Only failed events can be resolved"])
       ELSE Updated(resolve(evts, id, resolved_by, notes, time), id,
                    "Event resolved")

\* the reopen handler without its test of the status
reopenRoute_anyStatus(evts, id) ==
   LET i == FindIndex(evts, id)
   IN  IF i = 0 THEN Handled(evts, 404, [error |-> "Event not found"])
       ELSE Updated(reopen(evts, id), id, "Event reopened")

reopenRoute(evts, id) ==
   LET i == FindIndex(evts, id)
   IN  IF i = 0 THEN Handled(evts, 404, [error |-> "Event not found"])
       ELSE IF evts[i].status # "failure"
       THEN Handled(evts, 400, [error |-> "Only failed events can be reopened"])
       ELSE Updated(reopen(evts, id), id, "Event reopened")

\* a request of one of the three resolution routes, answered
Respond(op, id, handled) ==
   /\ events' = handled.events
   /\ result' = [op |-> op, id |-> id, response |-> handled.response]
   /\ ops' = ops + 1
   /\ UNCHANGED <<maxEvents, nextId, now, ticks, sinceClear, classifyVars, syncVars>>

AcknowledgeRoute(id, acknowledged_by) ==
   Respond("POST /:id/acknowledge", id,
           acknowledgeRoute(events, id, acknowledged_by, now))

ResolveRoute(id, resolved_by, notes) ==
   Respond("POST /:id/resolve", id,
           resolveRoute(events, id, resolved_by, notes, now))

ReopenRoute(id) ==
   Respond("POST /:id/reopen", id, reopenRoute(events, id))

\* the inputs of createEvent while the routes are explored
HttpInputs ==
   {input \in CreateInputs : input.integration = "procore" \/ input.status = "pending"}

\* creates and requests so far
HttpSteps == (nextId - 1) + ops

NextHttp ==
   \/ HttpSteps < MaxHttpSteps /\ \E input \in HttpInputs : Create(input)
   \/ HttpSteps < MaxHttpSteps /\ \E id \in KnownIds : AcknowledgeRoute(id, Undefined)
   \/ HttpSteps < MaxHttpSteps /\
         \E id \in KnownIds : ResolveRoute(id, "alice", "fixed upstream")
   \/ HttpSteps < MaxHttpSteps /\ \E id \in KnownIds : ReopenRoute(id)
   \/ HttpSteps < MaxHttpSteps /\
         \E r \in 1..MaxReqs : \E id \in KnownIds : ClassifyStart(r, id)
   \/ \E r \in 1..MaxReqs : \E outcome \in ClassifyOutcomes :
         ClassifyComplete(r, outcome)

SpecHttp == InitRoutes /\ [][NextHttp]_vars

(***************************************************************************)
(* C16: each of POST /events/:id/classify, /acknowledge, /resolve and      *)
(* /reopen answers 404 when the id is not in the store and 400 when the    *)
(* status of the event is not failure, and leaves the store unchanged in   *)
(* both cases.                                                             *)
(***************************************************************************)
\* the status a request on id must be rejected with, 0 when it must not
Rejection(id) ==
   IF ~IsStored(id) THEN 404
   ELSE IF Stored(id).status # "failure" THEN 400
   ELSE 0

C16_RejectStep ==
   \A id \in KnownIds :
      /\ ( /\ Rejection(id) # 0
           /\ \/ AcknowledgeRoute(id, Undefined)
              \/ ResolveRoute(id, "alice", "fixed upstream")
              \/ ReopenRoute(id) )
         => /\ result'.response.status = Rejection(id)
            /\ events' = events
      /\ \A r \in 1..MaxReqs :
            (Rejection(id) # 0 /\ ClassifyStart(r, id))
            => /\ reqs'[r].pc = "done"
               /\ reqs'[r].response.status = Rejection(id)
               /\ events' = events
               /\ invoked' = invoked

C16_Rejections == [][C16_RejectStep]_vars

\* reopen has been refused on a stored success event
C16_Witness ==
   /\ result.op = "POST /:id/reopen"
   /\ result.response.status = 400
   /\ IsStored(result.id)
   /\ Stored(result.id).status = "success"
   /\ ~Has(Stored(result.id), "resolution")

(***************************************************************************)
(* C17: classifyError raises 'Event has no error to classify', without     *)
(* falling back to the rules and without invoking the capability, whenever *)
(* the event has no error object or its status is not failure; through the *)
(* classify route, for a failure event without an error object, the caller *)
(* gets an error response and the event stays unclassified.                *)
(***************************************************************************)
\* the event cannot be classified
NothingToClassify(event) == ~Has(event, "error") \/ event.status # "failure"

C17_Raises ==
   \A input \in CreateInputs : \A client \in BOOLEAN :
      \A outcome \in CapabilityOutcomes \cup {NoOutcome} :
         LET event == NewEvent(input, 1, 0)
         IN  NothingToClassify(event) =>
                /\ classifyError(event, client, outcome) =
                      Raised("Event has no error to classify")
                /\ ~CallsCapability(event, client)

C17_RouteStep ==
   /\ \A id \in KnownIds : \A r \in 1..MaxReqs :
         ( /\ ClassifyStart(r, id)
           /\ IsStored(id)
           /\ Stored(id).status = "failure"
           /\ ~Has(Stored(id), "error") )
         => /\ reqs'[r].pc = "awaiting"
            /\ ~reqs'[r].calls
            /\ invoked' = invoked
            /\ events' = events
   /\ \A r \in 1..MaxReqs : \A outcome \in ClassifyOutcomes :
         ( /\ ClassifyComplete(r, outcome)
           /\ ~Has(reqs[r].event, "error") )
         => /\ reqs'[r].pc = "done"
            /\ reqs'[r].called = "raised"
            /\ reqs'[r].response.status >= 400
            /\ invoked' = invoked
            /\ events' = events

C17_NoErrorRaises == [](C17_Raises) /\ [][C17_RouteStep]_vars

\* with the client configured, a classify request on a failure event without
\* an error object has been answered 500 and the event carries no
\* classification
C17_Witness ==
   /\ openai
   /\ \E r \in 1..MaxReqs :
         /\ reqs[r].pc = "done"
         /\ reqs[r].called = "raised"
         /\ reqs[r].event.status = "failure"
         /\ ~Has(reqs[r].event, "error")
         /\ reqs[r].response.status = 500
         /\ ~reqs[r].invokes
         /\ IsStored(reqs[r].id)
         /\ ~Has(Stored(reqs[r].id), "classification")

(***************************************************************************)
(* syncStore (services/syncStore.ts): the pipeline catalog, the sync       *)
(* instances of every client and their executions.                         *)
(*                                                                         *)
(* Math.random() is a choice among the members of RandomSources: a member  *)
(* says which calls return a value above the threshold the code compares   *)
(* with, and gives the values the other calls are floored to.  randomUUID  *)
(* issues the numbers uuids + 1, uuids + 2, ... as execution ids; the ids  *)
(* of errors, warnings and changes, the request and the response headers   *)
(* and body of an execution, which the store never reads, are left out.    *)
(***************************************************************************)
Pipeline(name, integration, dataType, intervalMinutes, staleThresholdMinutes) ==
   [name |-> name, integration |-> integration, dataType |-> dataType,
    direction |-> "pull",
    schedule |-> [intervalMinutes |-> intervalMinutes,
                  staleThresholdMinutes |-> staleThresholdMinutes]]

DEFAULT_PIPELINES ==
   << Pipeline("Procore Projects", "procore", "projects", 15, 30),
      Pipeline("Procore Cost Codes", "procore", "cost_codes", 60, 120),
      Pipeline("Gusto Employees", "gusto", "employees", 30, 60),
      Pipeline("Gusto Timecards", "gusto", "timecards", 15, 30),
      Pipeline("QuickBooks Invoices", "quickbooks", "invoices", 30, 60),
      Pipeline("QuickBooks GL Entries", "quickbooks", "gl_entries", 60, 120),
      Pipeline("Stripe Transactions", "stripe_issuing", "transactions", 5, 15) >>

CLIENT_NAMES ==
   << "Acme Construction", "BuildRight Inc", "Metro Builders",
      "Summit Contractors", "Pacific Construction Co", "Valley Infrastructure",
      "Coastal Development", "Mountain View Builders" >>

\* the array with the elements of a function over 1..n, each evaluated once
AsArray(f) == f \o << >>

\* initializePipelines: the catalog, filled on first use
initializePipelines(pls) ==
   IF Len(pls) = 0
   THEN AsArray([k \in 1..Len(DEFAULT_PIPELINES) |->
           Assign(DEFAULT_PIPELINES[k], "id",
                  "pipeline_" \o DEFAULT_PIPELINES[k].integration \o "_"
                     \o DEFAULT_PIPELINES[k].dataType)])
   ELSE pls

\* the outcomes of Math.random(), in hundredths where the code compares the
\* value with a threshold, and already scaled and floored where it scales it
RandomSource(unlucky, late, failedRuns, partialRuns, manual, scaled) ==
   [unlucky |-> unlucky, late |-> late, failedRuns |-> failedRuns,
    partialRuns |-> partialRuns, manual |-> manual, scaled |-> scaled]

Scaled(duration, fetched, created, updated, failed, errorType, warns, staleExtra) ==
   [duration |-> duration, fetched |-> fetched, created |-> created,
    updated |-> updated, failed |-> failed, errorType |-> errorType,
    warns |-> warns, staleExtra |-> staleExtra]

\* every instance healthy, every execution a success
Calm == RandomSource({}, {}, {}, {}, 50, Scaled(0, 0, 0, 0, 0, 0, 50, 0))

\* failing and stale instances, failed and partial executions
Rough ==
   RandomSource({<<0, 1>>, <<1, 6>>},
                {<<0, 1>>, <<0, 2>>, <<1, 1>>, <<MaxClients - 1, 7>>},
                {0, 3, 12}, {0, 5}, 10, Scaled(1200, 40, 2, 9, 4, 1, 95, 29))

RandomSources == {Calm, Rough}

\* the error a failed execution reports
ErrorTypes ==
   << [code |-> "AUTH_EXPIRED",
       message |-> "OAuth token expired. Re-authentication required."],
      [code |-> "RATE_LIMITED",
       message |-> "API rate limit exceeded. Retry after 60 seconds."],
      [code |-> "TIMEOUT", message |-> "Request timeout after 30000ms."],
      [code |-> "INVALID_RESPONSE",
       message |-> "Unexpected response format from API."],
      [code |-> "CONNECTION_ERROR",
       message |-> "Failed to establish connection to remote server."] >>

generateExecution(params, rnd, id) ==
   LET status == params.status
       durationMs == 500 + rnd.scaled.duration
       completedAt == params.startedAt + durationMs
       recordsFetched == 10 + rnd.scaled.fetched
       recordsCreated == rnd.scaled.created
       recordsUpdated == rnd.scaled.updated
       recordsFailed == IF status = "failed" THEN rnd.scaled.failed + 1 ELSE 0
       error == ErrorTypes[rnd.scaled.errorType + 1]
       errors == IF status = "failed"
                 THEN << [message |-> error.message, code |-> error.code,
                          retryable |-> error.code # "AUTH_EXPIRED",
                          timestamp |-> completedAt] >>
                 ELSE << >>
       warnings == IF status = "partial" \/ rnd.scaled.warns > 90
                   THEN << [message |-> "Some records have missing optional fields",
                            code |-> "INCOMPLETE_DATA",
                            timestamp |-> completedAt] >>
                   ELSE << >>
   IN  [id |-> id,
        instanceId |-> params.instanceId,
        pipelineId |-> params.pipelineId,
        clientId |-> params.clientId,
        clientName |-> params.clientName,
        startedAt |-> params.startedAt,
        completedAt |-> completedAt,
        status |-> status,
        triggeredBy |-> "schedule",
        response |-> [statusCode |-> IF status = "failed"
                                     THEN (IF error.code = "RATE_LIMITED"
                                           THEN 429 ELSE 401)
                                     ELSE 200,
                      durationMs |-> durationMs],
        results |-> [recordsFetched |-> recordsFetched,
                     recordsCreated |-> recordsCreated,
                     recordsUpdated |-> recordsUpdated,
                     recordsSkipped |-> recordsFetched - recordsCreated
                                          - recordsUpdated - recordsFailed,
                     recordsFailed |-> recordsFailed,
                     errors |-> errors,
                     warnings |-> warnings]]

executionToSummary(execution) ==
   [id |-> execution.id,
    instanceId |-> execution.instanceId,
    pipelineId |-> execution.pipelineId,
    startedAt |-> execution.startedAt,
    completedAt |-> execution.completedAt,
    status |-> execution.status,
    durationMs |-> execution.response.durationMs,
    recordsProcessed |-> execution.results.recordsFetched,
    errors |-> Len(execution.results.errors),
    warnings |-> Len(execution.results.warnings)]

RECURSIVE GCD(_, _)
GCD(a, b) == IF b = 0 THEN a ELSE GCD(b, a % b)

\* the quotient a / b of two numbers that are not negative, b positive, as the
\* fraction in lowest terms
Quotient(a, b) == [num |-> a \div GCD(a, b), den |-> b \div GCD(a, b)]

(***************************************************************************)
(* The arithmetic of (successful / n) * 100 on IEEE 754 doubles.  A        *)
(* positive double is [mantissa, exponent]: the mantissa is the sequence   *)
(* <<1, l1, l2, l3, l4>> of its 53 bits, the leading bit and four limbs of *)
(* 13 bits, and the value is mantissa * 2^(exponent - 52).  Every          *)
(* operation rounds its exact result to the nearest double, a tie to the   *)
(* even mantissa.                                                          *)
(***************************************************************************)
Limb == 2^13

\* the mantissa plus one unit in the last place
Increment(m) ==
   LET s4 == m[5] + 1
       s3 == m[4] + (s4 \div Limb)
       s2 == m[3] + (s3 \div Limb)
       s1 == m[2] + (s2 \div Limb)
   IN  <<m[1] + (s1 \div Limb), s1 % Limb, s2 % Limb, s3 % Limb, s4 % Limb>>

\* the double of the 53 bits m, the dropped part being rest / unit of a unit
\* in the last place
Rounded(m, exponent, rest, unit) ==
   LET up == 2 * rest > unit \/ (2 * rest = unit /\ m[5] % 2 = 1)
       n == IF up THEN Increment(m) ELSE m
   IN  IF n[1] = 2
       THEN [mantissa |-> <<1, 0, 0, 0, 0>>, exponent |-> exponent + 1]
       ELSE [mantissa |-> n, exponent |-> exponent]

\* the least j with a * 2^j >= b
RECURSIVE ShiftsUp(_, _)
ShiftsUp(a, b) == IF a >= b THEN 0 ELSE 1 + ShiftsUp(2 * a, b)

\* the greatest e with b * 2^e <= a, for a >= b
RECURSIVE ShiftsDown(_, _)
ShiftsDown(a, b) == IF 2 * b > a THEN 0 ELSE 1 + ShiftsDown(a, 2 * b)

\* a / b for two positive integers: the double nearest to the quotient, by
\* long division
Divide(a, b) ==
   LET exponent == IF a >= b THEN ShiftsDown(a, b) ELSE 0 - ShiftsUp(a, b)
       num == IF a >= b THEN a ELSE a * 2^(0 - exponent)
       den == IF a >= b THEN b * 2^exponent ELSE b
       t1 == (num - den) * Limb
       t2 == (t1 % den) * Limb
       t3 == (t2 % den) * Limb
       t4 == (t3 % den) * Limb
   IN  Rounded(<<1, t1 \div den, t2 \div den, t3 \div den, t4 \div den>>,
               exponent, t4 % den, den)

\* x * 100 for a positive double x
TimesHundred(x) ==
   LET m == x.mantissa
       p4 == m[5] * 100
       p3 == m[4] * 100 + (p4 \div Limb)
       p2 == m[3] * 100 + (p3 \div Limb)
       p1 == m[2] * 100 + (p2 \div Limb)
       p0 == m[1] * 100 + (p1 \div Limb)
       \* the product has 59 or 60 bits, of which 53 are kept
       k == IF p0 < 128 THEN 6 ELSE 7
       K == 2^k
       Shifted(high, low) == (high % K) * (Limb \div K) + ((low % Limb) \div K)
   IN  Rounded(<<p0 \div K, Shifted(p0, p1), Shifted(p1, p2), Shifted(p2, p3),
                 Shifted(p3, p4)>>,
               x.exponent + k, p4 % K, K)

\* the number of doubles from y up to x (negative when x is below y), for two
\* doubles that are close to each other
DoublesBetween(y, x) ==
   LET d0 == x.exponent - y.exponent
       d1 == d0 * Limb + x.mantissa[2] - y.mantissa[2]
       d2 == d1 * Limb + x.mantissa[3] - y.mantissa[3]
       d3 == d2 * Limb + x.mantissa[4] - y.mantissa[4]
   IN  d3 * Limb + x.mantissa[5] - y.mantissa[5]

\* a double: the fraction num / den in lowest terms and ulps, the
\* number of doubles by which the number lies above the double nearest to
\* that fraction
Double(num, den, ulps) ==
   [num |-> num \div GCD(num, den), den |-> den \div GCD(num, den),
    ulps |-> ulps]

\* (successful / n) * 100 for 0 <= successful <= n, n positive
Percent(successful, n) ==
   IF successful = 0 THEN Double(0, 1, 0)
   ELSE Double(100 * successful, n,
               DoublesBetween(Divide(100 * successful, n),
                              TimesHundred(Divide(successful, n))))

RECURSIVE Sum(_, _)
Sum(seq, field) ==
   IF Len(seq) = 0 THEN 0
   ELSE (IF field = "durationMs" THEN seq[1].response.durationMs
         ELSE seq[1].results.recordsFetched) + Sum(Tail(seq), field)

Successful(e) == e.status = "success" \/ e.status = "partial"

calculateStats(execs) ==
   IF Len(execs) = 0
   THEN [totalSyncs |-> 0, successfulSyncs |-> 0, failedSyncs |-> 0,
         successRate |-> Double(100, 1, 0), avgDurationMs |-> Quotient(0, 1),
         totalRecordsProcessed |-> 0]
   ELSE LET successful == Len(SelectSeq(execs, Successful))
            failed == Len(SelectSeq(execs, LAMBDA e : e.status = "failed"))
        IN  [totalSyncs |-> Len(execs),
             successfulSyncs |-> successful,
             failedSyncs |-> failed,
             successRate |-> Percent(successful, Len(execs)),
             avgDurationMs |-> Quotient(Sum(execs, "durationMs"), Len(execs)),
             totalRecordsProcessed |-> Sum(execs, "recordsFetched")]

\* the number of executions generateMockData gives an instance of pipeline
RunsOf(pipeline) == Min((24 * 60) \div pipeline.schedule.intervalMinutes, 20)

RECURSIVE RunsBefore(_, _)
\* the number of executions generated for the pipelines before the p-th
RunsBefore(pls, p) ==
   IF p = 1 THEN 0 ELSE RunsBefore(pls, p - 1) + RunsOf(pls[p - 1])

\* the status generateMockData draws for client i (from 0) and the p-th
\* pipeline
DrawnStatus(introduceFailures, rnd, i, p) ==
   IF introduceFailures
   THEN (IF <<i, p>> \in rnd.unlucky THEN "failing"
         ELSE IF <<i, p>> \in rnd.late THEN "stale"
         ELSE "healthy")
   ELSE "healthy"

\* the execution history generateMockData builds for client i and the p-th
\* pipeline, newest first; firstId is the id of its newest execution
executionHistory(pls, introduceFailures, rnd, time, i, p, firstId) ==
   LET pipeline == pls[p]
       clientId == "client_" \o ToString(i + 1)
       shouldFail == DrawnStatus(introduceFailures, rnd, i, p) = "failing"
   IN  AsArray([k \in 1..RunsOf(pipeline) |->
          LET j == k - 1
              execStatus ==
                 IF j = 0 /\ shouldFail THEN "failed"
                 ELSE IF j \in rnd.failedRuns THEN "failed"
                 ELSE IF j \in rnd.partialRuns THEN "partial"
                 ELSE "success"
          IN  generateExecution(
                 [instanceId |-> clientId \o "_" \o pipeline.id,
                  pipelineId |-> pipeline.id,
                  clientId |-> clientId,
                  clientName |-> CLIENT_NAMES[(i % Len(CLIENT_NAMES)) + 1],
                  startedAt |-> time - j * pipeline.schedule.intervalMinutes
                                         * 60 * 1000,
                  status |-> execStatus],
                 rnd, firstId + j)])

\* the null of instance.lastSync
NoSummary == EmptyObject

\* slice(0, n) that keeps every element
TakeFirst_whole(seq, n) == seq

\* seq.slice(0, n)
TakeFirst(seq, n) == SubSeq(seq, 1, Min(n, Len(seq)))

Summaries(execs) ==
   AsArray([k \in 1..Len(execs) |-> executionToSummary(execs[k])])

\* the instance generateMockData builds from an execution history
generatedInstance(pls, introduceFailures, rnd, time, i, p, history) ==
   LET pipeline == pls[p]
       clientId == "client_" \o ToString(i + 1)
       status == DrawnStatus(introduceFailures, rnd, i, p)
       last24hExecutions ==
          SelectSeq(history, LAMBDA e : e.startedAt > time - DAY_MS)
       stats24h == calculateStats(last24hExecutions)
       lastSyncTime == IF Len(history) > 0 THEN history[1].completedAt ELSE time
       nextSync ==
          IF status = "stale"
          THEN time - (pipeline.schedule.staleThresholdMinutes
                         + rnd.scaled.staleExtra) * 60 * 1000
          ELSE lastSyncTime + pipeline.schedule.intervalMinutes * 60 * 1000
   IN  [id |-> clientId \o "_" \o pipeline.id,
        clientId |-> clientId,
        clientName |-> CLIENT_NAMES[(i % Len(CLIENT_NAMES)) + 1],
        pipelineId |-> pipeline.id,
        pipeline |-> pipeline,
        status |-> status,
        enabled |-> TRUE,
        lastSync |-> IF Len(history) > 0 THEN executionToSummary(history[1])
                     ELSE NoSummary,
        nextScheduledSync |-> nextSync,
        stats |-> [last24h |-> stats24h,
                   last7d |-> [stats24h EXCEPT
                                  !.totalSyncs = stats24h.totalSyncs * 7]],
        recentExecutions |-> Summaries(TakeFirst(history, 10))]

RECURSIVE Concat(_)
Concat(seqs) ==
   IF Len(seqs) = 0 THEN << >> ELSE seqs[1] \o Concat(Tail(seqs))

\* generateMockData: the catalog, the instances, the executions and the number
\* of ids issued after the call; issued is the number of ids issued before it
generateMockData(pls, options, rnd, time, issued) ==
   LET clientCount ==
          IF Has(options, "clientCount") THEN options.clientCount ELSE 5
       introduceFailures ==
          IF Has(options, "introduceFailures") THEN options.introduceFailures
          ELSE TRUE
       catalog == initializePipelines(pls)
       P == Len(catalog)
       perClient == RunsBefore(catalog, P + 1)
       \* one turn of the inner loop: the history and the instance of client i
       \* and the p-th pipeline
       built ==
          AsArray([n \in 1..(Max(clientCount, 0) * P) |->
             LET i == (n - 1) \div P
                 p == ((n - 1) % P) + 1
                 history ==
                    executionHistory(catalog, introduceFailures, rnd, time, i, p,
                       issued + i * perClient + RunsBefore(catalog, p) + 1)
             IN  [executionHistory |-> history,
                  instance |-> generatedInstance(catalog, introduceFailures,
                                                 rnd, time, i, p, history)]])
   IN  [pipelines |-> catalog,
        instances |-> AsArray([n \in 1..Len(built) |-> built[n].instance]),
        executions |->
           Concat([n \in 1..Len(built) |-> built[n].executionHistory]),
        uuids |-> issued + Max(clientCount, 0) * perClient]

\* the index in insts of the first instance with this id, or 0
InstanceIndex(insts, id) ==
   IF \E k \in 1..Len(insts) : insts[k].id = id
   THEN CHOOSE k \in 1..Len(insts) :
           /\ insts[k].id = id
           /\ \A q \in 1..(k - 1) : insts[q].id # id
   ELSE 0

\* a count of the instances that ignores their status
CountStatus_any(insts, status) == Len(insts)

CountStatus(insts, status) ==
   Len(SelectSeq(insts, LAMBDA i : i.status = status))

\* getSystemOverview, after the catalog was initialized
getSystemOverview(pls, insts, execs, time, rnd) ==
   LET last24h == time - DAY_MS
       recentExecutions == SelectSeq(execs, LAMBDA e : e.startedAt > last24h)
       successfulRecent == Len(SelectSeq(recentExecutions, Successful))
       pipelineStat(pipeline) ==
          LET pipelineInstances ==
                 SelectSeq(insts, LAMBDA i : i.pipelineId = pipeline.id)
              pipelineExecutions ==
                 SelectSeq(recentExecutions,
                           LAMBDA e : e.pipelineId = pipeline.id)
              successfulPipelineExecs ==
                 Len(SelectSeq(pipelineExecutions, Successful))
          IN  [pipeline |-> pipeline,
               totalInstances |-> Len(pipelineInstances),
               healthyInstances |-> CountStatus(pipelineInstances, "healthy"),
               staleInstances |-> CountStatus(pipelineInstances, "stale"),
               failingInstances |-> CountStatus(pipelineInstances, "failing"),
               successRate |->
                  IF Len(pipelineExecutions) > 0
                  THEN Percent(successfulPipelineExecs,
                               Len(pipelineExecutions))
                  ELSE Double(100, 1, 0),
               syncsLast24h |-> Len(pipelineExecutions),
               avgDurationMs |->
                  IF Len(pipelineExecutions) > 0
                  THEN Quotient(Sum(pipelineExecutions, "durationMs"),
                                Len(pipelineExecutions))
                  ELSE Quotient(0, 1)]
       failure(i) ==
          LET known == SelectSeq(execs, LAMBDA e : Has(i.lastSync, "id")
                                                   /\ e.id = i.lastSync.id)
          IN  [instanceId |-> i.id,
               clientId |-> i.clientId,
               clientName |-> i.clientName,
               pipeline |-> i.pipeline,
               lastError |->
                  IF /\ Has(i.lastSync, "status")
                     /\ i.lastSync.status = "failed"
                     /\ Len(known) > 0
                     /\ Len(known[1].results.errors) > 0
                  THEN known[1].results.errors[1].message
                  ELSE "Unknown error",
               failingSince |-> IF Has(i.lastSync, "startedAt")
                                THEN i.lastSync.startedAt ELSE time,
               consecutiveFailures |-> 1 + rnd.scaled.failed]
       failing == SelectSeq(insts, LAMBDA i : i.status = "failing")
   IN  [overallHealth |->
           IF Len(recentExecutions) > 0
           THEN Percent(successfulRecent, Len(recentExecutions))
           ELSE Double(100, 1, 0),
        activeClients |-> Cardinality({insts[k].clientId : k \in 1..Len(insts)}),
        totalSyncsLast24h |-> Len(recentExecutions),
        syncsPerHour |-> Quotient(Len(recentExecutions), 24),
        failingInstances |-> CountStatus(insts, "failing"),
        staleInstances |-> CountStatus(insts, "stale"),
        pipelineStats |-> AsArray([k \in 1..Len(pls) |-> pipelineStat(pls[k])]),
        recentFailures |->
           AsArray([k \in 1..Min(Len(failing), 10) |-> failure(failing[k])])]

\* triggerSync without the test of the instance: an unknown id makes an
\* execution of no instance
triggerSync_unknownRuns(insts, execs, instanceId, rnd, time, later, id) ==
   LET execution ==
          [generateExecution(
              [instanceId |-> instanceId, pipelineId |-> Undefined,
               clientId |-> Undefined, clientName |-> Undefined,
               startedAt |-> time,
               status |-> IF rnd.manual > 10 THEN "success" ELSE "failed"],
              rnd, id) EXCEPT !.triggeredBy = "manual"]
   IN  [isNull |-> FALSE, value |-> execution, instances |-> insts,
        executions |-> <<execution>> \o execs]

\* triggerSync that leaves the status and the schedule of the instance alone
triggerSync_keepsStatus(insts, execs, instanceId, rnd, time, later, id) ==
   LET n == InstanceIndex(insts, instanceId)
   IN  IF n = 0
       THEN [isNull |-> TRUE, value |-> EmptyObject, instances |-> insts,
             executions |-> execs]
       ELSE LET instance == insts[n]
                execution ==
                   [generateExecution(
                       [instanceId |-> instance.id,
                        pipelineId |-> instance.pipelineId,
                        clientId |-> instance.clientId,
                        clientName |-> instance.clientName,
                        startedAt |-> time,
                        status |-> IF rnd.manual > 10 THEN "success"
                                   ELSE "failed"],
                       rnd, id) EXCEPT !.triggeredBy = "manual"]
                summary == executionToSummary(execution)
            IN  [isNull |-> FALSE,
                 value |-> execution,
                 instances |->
                    [insts EXCEPT ![n] =
                       [instance EXCEPT
                          !.lastSync = summary,
                          !.recentExecutions =
                             <<summary>>
                                \o TakeFirst(instance.recentExecutions, 9)]],
                 executions |-> <<execution>> \o execs]

\* triggerSync: the value returned and the instances and executions after the
\* call; time is the clock read for startedAt, later the clock read again for
\* nextScheduledSync, id the id randomUUID gives the new execution
triggerSync(insts, execs, instanceId, rnd, time, later, id) ==
   LET n == InstanceIndex(insts, instanceId)
   IN  IF n = 0
       THEN [isNull |-> TRUE, value |-> EmptyObject, instances |-> insts,
             executions |-> execs]
       ELSE LET instance == insts[n]
                execution ==
                   [generateExecution(
                       [instanceId |-> instance.id,
                        pipelineId |-> instance.pipelineId,
                        clientId |-> instance.clientId,
                        clientName |-> instance.clientName,
                        startedAt |-> time,
                        status |-> IF rnd.manual > 10 THEN "success"
                                   ELSE "failed"],
                       rnd, id) EXCEPT !.triggeredBy = "manual"]
                summary == executionToSummary(execution)
            IN  [isNull |-> FALSE,
                 value |-> execution,
                 instances |->
                    [insts EXCEPT ![n] =
                       [instance EXCEPT
                          !.lastSync = summary,
                          !.status = IF execution.status = "failed"
                                     THEN "failing" ELSE "healthy",
                          !.nextScheduledSync =
                             later + instance.pipeline.schedule.intervalMinutes
                                       * 60 * 1000,
                          !.recentExecutions =
                             <<summary>>
                                \o TakeFirst(instance.recentExecutions, 9)]],
                 executions |-> <<execution>> \o execs]

\* the sum of totalInstances over the per-pipeline statistics
RECURSIVE TotalInstances(_)
TotalInstances(stats) ==
   IF Len(stats) = 0 THEN 0
   ELSE stats[1].totalInstances + TotalInstances(Tail(stats))

\* generations, triggers and moves of the clock so far
SyncSteps == syncs + ticks

\* the clock moves between the two reads of a call as long as the behaviour
\* has a step left for the move
LaterReads == IF SyncSteps + 1 < MaxSyncSteps THEN ClockSteps ELSE {0}

\* POST /sync/simulate: generateMockData, then the overview of the new data;
\* generateMockData reads the clock, and getSystemOverview reads it again
Simulate(body, rnd) ==
   \E generated \in {generateMockData(pipelines, body, rnd, now, uuids)} :
      \E d \in LaterReads :
      \E overview \in {getSystemOverview(generated.pipelines,
                                         generated.instances,
                                         generated.executions, now + d, rnd)} :
         /\ now' = now + d
         /\ ticks' = IF d > 0 THEN ticks + 1 ELSE ticks
         /\ pipelines' = generated.pipelines
         /\ instances' = generated.instances
         /\ executions' = generated.executions
         /\ uuids' = generated.uuids
         /\ syncs' = syncs + 1
         /\ result' =
               [op |-> "simulate", body |-> body, overview |-> overview,
                response |->
                   [success |-> TRUE,
                    message |-> "Mock sync data generated",
                    overview |->
                       [activeClients |-> overview.activeClients,
                        totalPipelines |-> Len(overview.pipelineStats),
                        totalInstances |->
                           TotalInstances(overview.pipelineStats),
                        failingInstances |-> overview.failingInstances]]]
         /\ UNCHANGED <<events, maxEvents, nextId, ops, sinceClear,
                        classifyVars>>

\* triggerSync reads the clock for startedAt and, for a known instance, again
\* for nextScheduledSync
TriggerSync(instanceId, rnd) ==
   \E d \in IF InstanceIndex(instances, instanceId) = 0 THEN {0}
             ELSE LaterReads :
      /\ now' = now + d
      /\ ticks' = IF d > 0 THEN ticks + 1 ELSE ticks
      /\ syncs' = syncs + 1
      /\ UNCHANGED <<pipelines, events, maxEvents, nextId, ops, sinceClear,
                     classifyVars>>
      /\ \E triggered \in {triggerSync(instances, executions, instanceId, rnd,
                                       now, now + d, uuids + 1)} :
            /\ instances' = triggered.instances
            /\ executions' = triggered.executions
            /\ uuids' = IF triggered.isNull THEN uuids ELSE uuids + 1
            /\ result' = [op |-> "triggerSync", instanceId |-> instanceId,
                          isNull |-> triggered.isNull,
                          value |-> triggered.value]

\* GET /sync/overview; the catalog is initialized on first use
GetSystemOverview(rnd) ==
   /\ pipelines' = initializePipelines(pipelines)
   /\ result' = [op |-> "getSystemOverview", at |-> now,
                 value |-> getSystemOverview(initializePipelines(pipelines),
                                             instances, executions, now, rnd)]
   /\ UNCHANGED <<instances, executions, uuids, syncs, storeVars, classifyVars>>

\* getPipeline, after the catalog was initialized
getPipeline(pls, id) ==
   LET found == SelectSeq(pls, LAMBDA p : p.id = id)
   IN  IF Len(found) > 0 THEN found[1] ELSE Undefined

\* GET /sync/pipelines: getPipelines; the catalog is initialized on first use
GetPipelines ==
   /\ pipelines' = initializePipelines(pipelines)
   /\ result' = [op |-> "getPipelines",
                 value |-> initializePipelines(pipelines)]
   /\ UNCHANGED <<instances, executions, uuids, syncs, storeVars, classifyVars>>

\* GET /sync/pipelines/:id: getPipeline; the catalog is initialized on first use
GetPipeline(id) ==
   /\ pipelines' = initializePipelines(pipelines)
   /\ result' = [op |-> "getPipeline", id |-> id,
                 value |->
                    IF \E k \in 1..Len(initializePipelines(pipelines)) :
                          initializePipelines(pipelines)[k].id = id
                    THEN [found |-> TRUE,
                          pipeline |->
                             getPipeline(initializePipelines(pipelines), id)]
                    ELSE [found |-> FALSE]]
   /\ UNCHANGED <<instances, executions, uuids, syncs, storeVars, classifyVars>>

\* the pipeline ids that are asked for: one of the catalog and one that is not
PipelineIds == {"pipeline_gusto_employees", "pipeline_procore_invoices"}

\* the simulate requests: the body and the outcomes of Math.random()
SimulateRuns ==
   { [body |-> [clientCount |-> 1, introduceFailures |-> TRUE],
      rnd |-> Rough],
     [body |-> [clientCount |-> MaxClients, introduceFailures |-> TRUE],
      rnd |-> Rough],
     [body |-> [clientCount |-> MaxClients, introduceFailures |-> FALSE],
      rnd |-> Calm],
     [body |-> [clientCount |-> 1, introduceFailures |-> FALSE],
      rnd |-> Rough] }

\* an instance of the first client, one of the last client, and an instance
\* that generation never makes
FirstInstance == "client_1_pipeline_procore_projects"
LastInstance ==
   "client_" \o ToString(MaxClients) \o "_pipeline_stripe_issuing_transactions"
NoInstance == "client_0_pipeline_procore_projects"

\* the trigger requests: the instance id and the outcomes of Math.random()
TriggerRuns ==
   { [instanceId |-> FirstInstance, rnd |-> Calm],
     [instanceId |-> FirstInstance, rnd |-> Rough],
     [instanceId |-> LastInstance, rnd |-> Rough],
     [instanceId |-> NoInstance, rnd |-> Calm] }

NextSync ==
   \/ /\ SyncSteps < MaxSyncSteps
      /\ \E run \in SimulateRuns : Simulate(run.body, run.rnd)
   \/ /\ SyncSteps < MaxSyncSteps
      /\ \E run \in TriggerRuns : TriggerSync(run.instanceId, run.rnd)
   \/ /\ SyncSteps < MaxSyncSteps
      /\ Elapse(DAY_MS)
   \/ \E rnd \in RandomSources : GetSystemOverview(rnd)
   \/ GetPipelines
   \/ \E id \in PipelineIds : GetPipeline(id)

\* a run of the sync store; the event store stays as constructed
InitSyncStore == Init /\ maxEvents = MaxCap

SpecSync == InitSyncStore /\ [][NextSync]_vars

(***************************************************************************)
(* C13: triggerSync on a known instance adds exactly one execution: the    *)
(* execution list grows by one, the summary of the new execution is the    *)
(* first entry of the instance's recentExecutions, followed by the         *)
(* previous entries in their order, the list never has more than 10        *)
(* entries, and lastSync is the summary of that execution; after any       *)
(* number of triggers.                                                     *)
(***************************************************************************)
Known(instanceId) == \E k \in 1..Len(instances) : instances[k].id = instanceId

ExecutionIds(execs) == {execs[k].id : k \in 1..Len(execs)}

C13_TriggerStep ==
   \A run \in TriggerRuns :
      (TriggerSync(run.instanceId, run.rnd) /\ Known(run.instanceId)) =>
         LET n == CHOOSE k \in 1..Len(instances) :
                     instances[k].id = run.instanceId
             before == instances[n].recentExecutions
             after == instances'[n].recentExecutions
             added == executions'[1]
         IN  /\ Len(executions') = Len(executions) + 1
             /\ Tail(executions') = executions
             /\ added.id \notin ExecutionIds(executions)
             /\ added.instanceId = run.instanceId
             /\ Len(after) = Min(Len(before) + 1, 10)
             /\ after[1].id = added.id
             /\ after[1].startedAt = added.startedAt
             /\ after[1].status = added.status
             /\ Tail(after) = SubSeq(before, 1, Len(after) - 1)
             /\ instances'[n].lastSync = after[1]
             /\ \A k \in 1..Len(instances) :
                   k # n => instances'[k] = instances[k]

C13_Capped ==
   \A k \in 1..Len(instances) : Len(instances[k].recentExecutions) <= 10

C13_TriggerAddsOne == [](C13_Capped) /\ [][C13_TriggerStep]_vars

\* an instance triggered twice in a row, whose ten recent executions start
\* with the two manual ones
C13_Witness ==
   /\ result.op = "triggerSync"
   /\ ~result.isNull
   /\ Len(executions) >= 2
   /\ executions[1].triggeredBy = "manual"
   /\ executions[2].triggeredBy = "manual"
   /\ executions[1].instanceId = executions[2].instanceId
   /\ \E k \in 1..Len(instances) :
         /\ instances[k].id = executions[1].instanceId
         /\ Len(instances[k].recentExecutions) = 10
         /\ instances[k].recentExecutions[1].id = executions[1].id
         /\ instances[k].recentExecutions[2].id = executions[2].id

(***************************************************************************)
(* C14: after generateMockData(c, f) with c >= 1, whatever was stored      *)
(* before, getSystemOverview reports activeClients = c, as many pipeline   *)
(* statistics as the catalog has pipelines, and failingInstances and       *)
(* staleInstances equal to the number of instances with that status and to *)
(* the sum of the per-pipeline counts.                                     *)
(***************************************************************************)
InstancesWith(status) ==
   Cardinality({k \in 1..Len(instances) : instances[k].status = status})

RECURSIVE SumOf(_, _)
SumOf(stats, field) ==
   IF Len(stats) = 0 THEN 0 ELSE stats[1][field] + SumOf(Tail(stats), field)

C14_OverviewAfterGeneration ==
   result.op = "simulate" =>
      LET c == result.body.clientCount
          overview == result.overview
      IN  /\ overview.activeClients = c
          /\ Len(overview.pipelineStats) = Len(DEFAULT_PIPELINES)
          /\ overview.failingInstances = InstancesWith("failing")
          /\ overview.staleInstances = InstancesWith("stale")
          /\ overview.failingInstances =
                SumOf(overview.pipelineStats, "failingInstances")
          /\ overview.staleInstances =
                SumOf(overview.pipelineStats, "staleInstances")
          /\ Len(instances) = c * Len(DEFAULT_PIPELINES)
          /\ \A k \in 1..Len(executions) :
                executions[k].triggeredBy = "schedule"

\* a generation for the largest number of clients, with failures, over a
\* store that held executions before
C14_Witness ==
   /\ result.op = "simulate"
   /\ result.body.clientCount = MaxClients
   /\ result.body.introduceFailures
   /\ uuids > Len(executions)
   /\ result.overview.failingInstances > 0
   /\ result.overview.staleInstances > 0

(***************************************************************************)
(* C15: immediately after triggerSync, instance.stats.last24h (totalSyncs, *)
(* successfulSyncs, failedSyncs, successRate) equals the statistics of the *)
(* instance's executions of the trailing 24 hours, the new one included.   *)
(***************************************************************************)
C15_TriggerStep ==
   \A run \in TriggerRuns :
      (TriggerSync(run.instanceId, run.rnd) /\ Known(run.instanceId)) =>
         LET n == CHOOSE k \in 1..Len(instances) :
                     instances[k].id = run.instanceId
             recent == SelectSeq(executions',
                          LAMBDA e : /\ e.instanceId = run.instanceId
                                     /\ e.startedAt > now' - DAY_MS)
             expected == calculateStats(recent)
             last24h == instances'[n].stats.last24h
         IN  /\ last24h.totalSyncs = expected.totalSyncs
             /\ last24h.successfulSyncs = expected.successfulSyncs
             /\ last24h.failedSyncs = expected.failedSyncs
             /\ last24h.successRate = expected.successRate

C15_StatsRecomputed == [][C15_TriggerStep]_vars

(***************************************************************************)
(* C19: triggerSync with an instance id that is not in the store returns   *)
(* null and changes nothing; with an id that is in the store it never      *)
(* returns null.                                                           *)
(***************************************************************************)
C19_TriggerStep ==
   \A run \in TriggerRuns :
      TriggerSync(run.instanceId, run.rnd) =>
         IF Known(run.instanceId)
         THEN /\ ~result'.isNull
              /\ result'.value = executions'[1]
         ELSE /\ result'.isNull
              /\ instances' = instances
              /\ executions' = executions
              /\ pipelines' = pipelines
              /\ uuids' = uuids

C19_NullOnlyWhenUnknown == [][C19_TriggerStep]_vars

\* a trigger for an unknown instance id answered null by a store that holds
\* instances
C19_Witness ==
   /\ result.op = "triggerSync"
   /\ result.instanceId = NoInstance
   /\ result.isNull
   /\ Len(instances) > 0
   /\ Len(executions) > 0

(***************************************************************************)
(* C21: resolve on a failure event sets status resolved with resolvedAt,   *)
(* resolvedBy and notes and keeps acknowledgedAt and acknowledgedBy of the *)
(* prior resolution (absent if there was no acknowledgement); a later      *)
(* resolve replaces resolvedAt, resolvedBy and notes, and a resolve        *)
(* without notes leaves no notes of an earlier resolve.                    *)
(***************************************************************************)
SameField(a, b, k) == (Has(a, k) <=> Has(b, k)) /\ (Has(a, k) => a[k] = b[k])

C21_ResolveStep ==
   \A id \in KnownIds : \A args \in ResolveArgs :
      ( /\ Resolve(id, args.by, args.notes)
        /\ IsStored(id)
        /\ Stored(id).status = "failure" )
      => LET prior == IF Has(Stored(id), "resolution")
                      THEN Stored(id).resolution ELSE EmptyObject
             next == StoredNext(id).resolution
         IN  /\ next.status = "resolved"
             /\ next.resolvedAt = now
             /\ next.resolvedBy =
                   (IF args.by = Undefined THEN "anonymous" ELSE args.by)
             /\ IF args.notes = Undefined THEN ~Has(next, "notes")
                ELSE Has(next, "notes") /\ next.notes = args.notes
             /\ SameField(next, prior, "acknowledgedAt")
             /\ SameField(next, prior, "acknowledgedBy")
             /\ DOMAIN next \subseteq
                   {"status", "resolvedAt", "resolvedBy", "notes",
                    "acknowledgedAt", "acknowledgedBy"}

C21_ResolveMerges == [][C21_ResolveStep]_vars

\* an event acknowledged, then resolved after the clock advanced, whose
\* resolution carries no notes
C21_Witness ==
   \E id \in KnownIds :
      /\ IsStored(id)
      /\ Has(Stored(id), "resolution")
      /\ Stored(id).resolution.status = "resolved"
      /\ Has(Stored(id).resolution, "acknowledgedAt")
      /\ Stored(id).resolution.resolvedAt > Stored(id).resolution.acknowledgedAt
      /\ ~Has(Stored(id).resolution, "notes")
      /\ ops = MaxOps

(***************************************************************************)
(* The fallback classifier applied to an error message and code.           *)
(***************************************************************************)
FallbackMessages ==
   { Undefined,
     "Card declined: unauthorized merchant",
     "OAuth token expired. Re-authentication required.",
     "Wage rate missing: rate limit check skipped",
     "Rate limit exceeded",
     "Validation failed",
     "Entity not found",
     "Entity not found: Project #12847 has been archived in Procore",
     "Cost code mapping failed: Code \"03-100\" exists in Procore but has no matching code in Miter",
     "An unexpected internal server error occurred" }

FallbackCodes ==
   {Undefined, "400", "401", "404", "429", "500", "card_declined",
    "MAPPING_ERROR", "UNKNOWN"}

\* the error object with this message and code
ErrorOf(message, code) ==
   AssignOpt(AssignOpt(EmptyObject, "message", message), "code", code)

InitFallback ==
   /\ InitStore
   /\ InitSync
   /\ maxEvents = MaxCap
   /\ openai = FALSE
   /\ reqs = IdleReqs
   /\ invoked = <<>>
   /\ \E message \in FallbackMessages, code \in FallbackCodes :
         result = [op |-> "input",
                   event |-> NewEvent(
                      [integration |-> "stripe_issuing",
                       eventType |-> "card.authorization",
                       status |-> "failure", payload |-> "payload1",
                       error |-> ErrorOf(message, code)], 1, 0)]

GetMockClassification ==
   /\ result.op = "input"
   /\ result' = [op |-> "getMockClassification", event |-> result.event,
                 value |-> getMockClassification(result.event)]
   /\ UNCHANGED <<storeVars, classifyVars, syncVars>>

NextFallback == GetMockClassification

SpecFallback == InitFallback /\ [][NextFallback]_vars

(***************************************************************************)
(* C22: the fallback classifier is a total function of the lower-cased     *)
(* error message and code: it returns the first rule that matches in the   *)
(* order spending_control, auth, compliance, rate_limit, data_validation,  *)
(* data_state_mismatch, and unknown when none matches, with the severities *)
(* high, high, critical, low, medium, medium, medium; an input that        *)
(* matches several rules gets the earliest.                                *)
(***************************************************************************)
FallbackRule(category, severity, keywords, codes) ==
   [category |-> category, severity |-> severity, keywords |-> keywords,
    codes |-> codes]

FallbackRules ==
   << FallbackRule("spending_control", "high",
                   {"spending", "spending_limit", "declined"}, {"card_declined"}),
      FallbackRule("auth", "high",
                   {"oauth", "token expired", "unauthorized", "re-auth"}, {"401"}),
      FallbackRule("compliance", "critical",
                   {"prevailing wage", "wage rate", "apprentice", "fringe",
                    "wh-347", "lcptracker", "certified payroll"}, {}),
      FallbackRule("rate_limit", "low",
                   {"rate limit", "too many requests", "429"}, {"429"}),
      FallbackRule("data_validation", "medium",
                   {"validation", "required", "invalid", "null"}, {}),
      FallbackRule("data_state_mismatch", "medium",
                   {"archived", "not found", "entity not found",
                    "mapping failed"}, {"404"}),
      FallbackRule("unknown", "medium", {}, {}) >>

\* the rule applies to the error: a keyword occurs in the lower-cased message
\* or the lower-cased code is one of the rule's codes
RuleApplies(rule, error) ==
   \/ /\ Has(error, "message")
      /\ \E keyword \in rule.keywords :
            Includes(ToLowerCase(Chars[error.message]), Chars[keyword])
   \/ /\ Has(error, "code")
      /\ \E code \in rule.codes : ToLowerCase(Chars[error.code]) = Chars[code]

\* the first rule that applies, the last one when none does
FirstRule(error) ==
   LET applying == {k \in 1..Len(FallbackRules) :
                       RuleApplies(FallbackRules[k], error)}
   IN  IF applying = {} THEN FallbackRules[Len(FallbackRules)]
       ELSE FallbackRules[CHOOSE k \in applying : \A q \in applying : k <= q]

AppliesTo(category, error) ==
   \E k \in 1..Len(FallbackRules) :
      /\ FallbackRules[k].category = category
      /\ RuleApplies(FallbackRules[k], error)

C22_FirstRuleWins ==
   result.op = "getMockClassification" =>
      /\ result.value.ok
      /\ result.value.value.category = FirstRule(result.event.error).category
      /\ result.value.value.severity = FirstRule(result.event.error).severity
      /\ ( /\ Has(result.event.error, "message")
           /\ result.event.error.message = "Card declined: unauthorized merchant" )
         => result.value.value.category = "spending_control"
      /\ ( /\ Has(result.event.error, "message")
           /\ result.event.error.message =
                 "OAuth token expired. Re-authentication required."
           /\ ~AppliesTo("spending_control", result.event.error) )
         => result.value.value.category = "auth"
      /\ ( /\ Has(result.event.error, "message")
           /\ result.event.error.message =
                 "Wage rate missing: rate limit check skipped"
           /\ ~AppliesTo("spending_control", result.event.error)
           /\ ~AppliesTo("auth", result.event.error) )
         => result.value.value.category = "compliance"

\* a message with the wording of the rate limit and of the compliance rule,
\* under the code of the rate limit rule, classified as compliance
C22_Witness ==
   /\ result.op = "getMockClassification"
   /\ Has(result.event.error, "message")
   /\ result.event.error.message = "Wage rate missing: rate limit check skipped"
   /\ Has(result.event.error, "code")
   /\ result.event.error.code = "429"
   /\ AppliesTo("rate_limit", result.event.error)
   /\ AppliesTo("compliance", result.event.error)
   /\ result.value.value.category = "compliance"
   /\ result.value.value.severity = "critical"

(***************************************************************************)
(* C23: triggerSync on a known instance, whatever its prior status, sets   *)
(* the status to failing if the new execution failed and to healthy        *)
(* otherwise, marks the new execution as triggered manually, and sets      *)
(* nextScheduledSync to the trigger time plus the pipeline's interval: the *)
(* time the clock shows when the trigger sets it, which is the execution's *)
(* startedAt or later.                                                     *)
(***************************************************************************)
C23_TriggerStep ==
   \A run \in TriggerRuns :
      (TriggerSync(run.instanceId, run.rnd) /\ Known(run.instanceId)) =>
         LET n == CHOOSE k \in 1..Len(instances) :
                     instances[k].id = run.instanceId
             added == executions'[1]
         IN  /\ added.status \in {"success", "failed"}
             /\ instances'[n].status =
                   (IF added.status = "failed" THEN "failing" ELSE "healthy")
             /\ added.triggeredBy = "manual"
             /\ added.startedAt = now
             /\ now' >= now
             /\ instances'[n].nextScheduledSync =
                   now' + instances[n].pipeline.schedule.intervalMinutes
                             * 60 * 1000

C24_Overlap ==
   \E a, b \in 1..MaxReqs :
      /\ a # b
      /\ reqs[a].pc = "awaiting"
      /\ reqs[b].pc = "awaiting"
      /\ reqs[a].id = reqs[b].id
      /\ Invocations(reqs[a].id) = 2

C24_SequentialInvokesOnce ==
   \A id \in KnownIds : OneAfterTheOther(id) => Invocations(id) <= 1

(***************************************************************************)
(* C25: every classify call on a stored failure event with an error        *)
(* eventually completes with a classification, the capability having       *)
(* answered or not.                                                        *)
(***************************************************************************)
\* classifyError sets no timeout of its own; the promise of the capability is
\* taken to settle eventually, by an answer or by a rejection of the client
\* library
SpecRoutesFair ==
   /\ SpecRoutes
   /\ WF_vars(\E r \in 1..MaxReqs : \E outcome \in ClassifyOutcomes :
                 ClassifyComplete(r, outcome))

\* the request was answered with a classification
Completed(r) ==
   /\ reqs[r].pc = "done"
   /\ reqs[r].response.status = 200
   /\ Has(reqs[r].response.body, "classification")

C25_EventuallyClassified ==
   \A r \in 1..MaxReqs :
      (reqs[r].pc = "awaiting" /\ Has(reqs[r].event, "error")) ~> Completed(r)

(***************************************************************************)
(* C26: every classification stored on an event, from the capability or    *)
(* from the fallback, has a category of ErrorCategory and a severity of     *)
(* ErrorSeverity; an answer of the capability outside these sets is never  *)
(* persisted.                                                              *)
(***************************************************************************)
C26_StoredWellFormed ==
   \A i \in 1..Len(events) :
      Has(events[i], "classification") =>
         /\ Has(events[i].classification, "category")
         /\ events[i].classification.category \in ErrorCategory
         /\ Has(events[i].classification, "severity")
         /\ events[i].classification.severity \in ErrorSeverity

(***************************************************************************)
(* The store holding several events while classifications and resolutions  *)
(* are set.                                                                *)
(***************************************************************************)
MaxFrameCreates == 2
MaxFrameOps == 2

FrameInputs ==
   {input \in StoreInputs : input.status \in {"success", "failure"}}

NextFrame ==
   \/ nextId <= MaxFrameCreates /\ \E input \in FrameInputs : Create(input)
   \/ ops < MaxFrameOps /\ Mutate
   \/ Clear

SpecFrame == Init /\ [][NextFrame]_vars

\* the fields an event is created with
CreatedFields ==
   {"id", "integration", "eventType", "status", "timestamp", "payload", "error"}

\* the events after the step are the events before it, except for field k of
\* the event with the given id
OnlyChanges(id, k) ==
   /\ Len(events') = Len(events)
   /\ \A i \in 1..Len(events) :
         IF events[i].id = id
         THEN Without(events'[i], k) = Without(events[i], k)
         ELSE events'[i] = events[i]

(***************************************************************************)
(* C27: the fields an event is created with never change under any store   *)
(* operation; acknowledge, resolve and reopen change only the resolution   *)
(* of the addressed event, updateClassification only its classification,   *)
(* and every other event is left untouched.                                *)
(***************************************************************************)
C27_FrameStep ==
   /\ \A id \in KnownIds :
         (IsStored(id) /\ FindIndex(events', id) # 0) =>
            \A k \in CreatedFields : SameField(Stored(id), StoredNext(id), k)
   /\ \A id \in KnownIds :
         ( \/ \E by \in Actors : Acknowledge(id, by)
           \/ \E a \in ResolveArgs : Resolve(id, a.by, a.notes)
           \/ Reopen(id) )
         => OnlyChanges(id, "resolution")
   /\ \A id \in KnownIds :
         UpdateClassification(id, StoreClassification)
         => OnlyChanges(id, "classification")

C27_Frame == [][C27_FrameStep]_vars

\* two stored events after two calls on the first of them, which carries both
\* a classification and a resolution; the second carries neither
C27_Witness ==
   /\ Len(events) = 2
   /\ ops = 2
   /\ \E i, j \in 1..2 :
         /\ Has(events[i], "classification")
         /\ Has(events[i], "resolution")
         /\ events[i].classification = StoreClassification
         /\ ~Has(events[j], "classification")
         /\ ~Has(events[j], "resolution")
         /\ events[j].status = "failure"

(***************************************************************************)
(* C28: after any sequence of generateMockData and triggerSync calls, an   *)
(* instance has status failing if and only if its most recent execution    *)
(* (instance.lastSync) has status failed.                                  *)
(***************************************************************************)
C28_FailingIffLastFailed ==
   \A k \in 1..Len(instances) :
      instances[k].status = "failing"
         <=> ( /\ Has(instances[k].lastSync, "status")
               /\ instances[k].lastSync.status = "failed" )

(***************************************************************************)
(* C29: when a classify request for an event is answered successfully with *)
(* cached = false, the event is in the store at that moment and carries    *)
(* exactly the returned classification, also when create or clear ran      *)
(* while the request was suspended on the capability.                      *)
(***************************************************************************)
C29_AnswerStep ==
   \A r \in 1..MaxReqs :
      ( /\ reqs[r].pc # "done"
        /\ reqs'[r].pc = "done"
        /\ reqs'[r].response.status = 200
        /\ ~reqs'[r].response.body.cached )
      => LET i == FindIndex(events', reqs'[r].id)
         IN  /\ i # 0
             /\ Has(events'[i], "classification")
             /\ events'[i].classification =
                   reqs'[r].response.body.classification

C29_AnsweredFromStore == [][C29_AnswerStep]_vars

(***************************************************************************)
(* generateExecution applied to a status and the draws of Math.random.     *)
(***************************************************************************)
ExecutionStatuses == {"success", "partial", "failed"}

\* draws of generateExecution, the least and the greatest of each included
ExecutionDraws ==
   { Scaled(1200, fetched, created, updated, failed, errorType, warns, 0) :
        fetched \in {0, 40, 89}, created \in {0, 2}, updated \in {0, 9},
        failed \in {0, 4}, errorType \in {0, 4}, warns \in {50, 95} }

InitExecution ==
   /\ InitStore
   /\ InitSync
   /\ maxEvents = MaxCap
   /\ openai = FALSE
   /\ reqs = IdleReqs
   /\ invoked = <<>>
   /\ \E status \in ExecutionStatuses, scaled \in ExecutionDraws :
         result = [op |-> "input", status |-> status,
                   rnd |-> RandomSource({}, {}, {}, {}, 50, scaled)]

GenerateExecution ==
   /\ result.op = "input"
   /\ result' = [op |-> "generateExecution", status |-> result.status,
                 value |-> generateExecution(
                    [instanceId |-> FirstInstance,
                     pipelineId |-> initializePipelines(pipelines)[1].id,
                     clientId |-> "client_1",
                     clientName |-> CLIENT_NAMES[1],
                     startedAt |-> now,
                     status |-> result.status],
                    result.rnd, 1)]
   /\ UNCHANGED <<storeVars, classifyVars, syncVars>>

NextExecution == GenerateExecution

SpecExecution == InitExecution /\ [][NextExecution]_vars

(***************************************************************************)
(* C30: every synthesized execution has non-negative record counts whose   *)
(* created, updated, skipped and failed parts add up to recordsFetched,    *)
(* has recordsFailed > 0 exactly when its status is failed, and carries    *)
(* exactly one error when failed and none otherwise.                       *)
(***************************************************************************)
\* the parts of the statement other than the sign of the counts
C30_SumAndErrors ==
   result.op = "generateExecution" =>
      LET r == result.value.results
      IN  /\ r.recordsCreated + r.recordsUpdated + r.recordsSkipped
                + r.recordsFailed = r.recordsFetched
          /\ (r.recordsFailed > 0) <=> (result.value.status = "failed")
          /\ Len(r.errors) = (IF result.value.status = "failed" THEN 1 ELSE 0)

C30_RecordCounts ==
   /\ C30_SumAndErrors
   /\ result.op = "generateExecution" =>
         LET r == result.value.results
         IN  /\ r.recordsFetched >= 0
             /\ r.recordsCreated >= 0
             /\ r.recordsUpdated >= 0
             /\ r.recordsSkipped >= 0
             /\ r.recordsFailed >= 0
====
